---- MODULE Spec2Model ----
(***************************************************************************)
(* Attendify: the attendance verification pipeline of                      *)
(* backend/app/api/routes/attendance.py (/mark, /mark-multi, /override,    *)
(* /manual/submit), backend/app/services/verification_service.py           *)
(* (verify_multi_frame), the session lifecycle of                          *)
(* backend/app/api/routes/sessions.py, the thresholds of                   *)
(* backend/app/core/config_thresholds.py, the anomaly engine of            *)
(* backend/app/services/anomaly_service.py, the blink check of             *)
(* backend/app/services/liveness_service.py, the recognizer singleton of   *)
(* backend/app/models/face_model.py and /register.                         *)
(*                                                                         *)
(* Conventions.  Python's None / falsy value of an id or a token is 0, of  *)
(* a name is "".  A confidence is an integer percentage; an average of     *)
(* confidences is kept as its floor, which decides every comparison the    *)
(* code makes against the (integer) tiers exactly as the float does.       *)
(* Timestamps are readings of a logical clock that every write advances.   *)
(* The store is shared by every server process; a request is a sequence of *)
(* steps separated where the handler awaits or where it issues separate    *)
(* statements against the store (a query, later a commit); nothing in the  *)
(* code serialises two requests across those points.                       *)
(***************************************************************************)
EXTENDS Integers, Sequences, FiniteSets, TLC

VARIABLES
    sessions,   \* the attendance_sessions table: id -> row
    logs,       \* the attendance_logs table
    clock,      \* the logical clock timestamps are read from
    req,        \* the request each client connection has in flight
    vmf,        \* one call of verify_multi_frame, frame by frame
    sess,       \* one AttendanceSession object and the calls made on it
    anom,       \* one call of analyze_anomalies, one sub-check per step
    thresholds, \* a VerificationThresholds object and the calls made on it
    detector,   \* the FaceDetector of the FaceService singleton and its callers
    liveness,   \* one call of LivenessService.check_liveness, frame by frame
    reg         \* the students table, the face folders and one /register request

vars == <<sessions, logs, clock, req, vmf, sess, anom, thresholds, detector, liveness, reg>>

-----------------------------------------------------------------------------
(* Bounds of the model *)

MaxSessions == 1
MaxClock == 3
MaxEntries == 1
MaxVmfFrames == 5
MaxSessionClock == 12

-----------------------------------------------------------------------------
(* config_thresholds.py *)

FACE_CONFIDENCE_HIGH == 80
FACE_CONFIDENCE_MEDIUM == 65
FACE_CONFIDENCE_LOW == 50
FACE_CONFIDENCE_REJECT == 40
REQUIRED_CONSISTENT_FRAMES == 3
MULTI_FACE_IS_PROXY_RISK == TRUE

\* VerificationThresholds(...): the generated __init__ of the dataclass stores
\* the four confidence tiers it is given; there is no __post_init__
VerificationThresholds(high, medium, low, reject) ==
    [FACE_CONFIDENCE_HIGH |-> high, FACE_CONFIDENCE_MEDIUM |-> medium,
     FACE_CONFIDENCE_LOW |-> low, FACE_CONFIDENCE_REJECT |-> reject]

\* get_confidence_label with the MEDIUM tier tested by equality
GetConfidenceLabel_MediumByEquality(self, confidence) ==
    IF confidence >= self.FACE_CONFIDENCE_HIGH THEN "HIGH"
    ELSE IF confidence = self.FACE_CONFIDENCE_MEDIUM THEN "MEDIUM"
    ELSE IF confidence >= self.FACE_CONFIDENCE_LOW THEN "LOW"
    ELSE "REJECTED"

\* VerificationThresholds.get_confidence_label(self, confidence)
GetConfidenceLabel(self, confidence) ==
    IF confidence >= self.FACE_CONFIDENCE_HIGH THEN "HIGH"
    ELSE IF confidence >= self.FACE_CONFIDENCE_MEDIUM THEN "MEDIUM"
    ELSE IF confidence >= self.FACE_CONFIDENCE_LOW THEN "LOW"
    ELSE "REJECTED"

\* thresholds.get_confidence_label(confidence), on the global singleton
\* "thresholds = VerificationThresholds()"
get_confidence_label(confidence) ==
    GetConfidenceLabel(VerificationThresholds(FACE_CONFIDENCE_HIGH, FACE_CONFIDENCE_MEDIUM,
                                              FACE_CONFIDENCE_LOW, FACE_CONFIDENCE_REJECT),
                       confidence)

-----------------------------------------------------------------------------
(* The student store (rows of models/attendance.py Student).  Two students *)
(* are enrolled; "mallory" is a label the matcher knows that has no row.   *)

StudentIds == {1, 2}

Student(i) ==
    [id |-> i,
     name |-> IF i = 1 THEN "alice" ELSE "bob",
     roll_number |-> 10 + i,
     fingerprint_id |-> 20 + i,
     id_card_code |-> IF i = 1 THEN 31 ELSE 0]

\* db.query(Student).filter(Student.name == name).first(); 0 when there is none
StudentByName(name) ==
    IF \E i \in StudentIds : Student(i).name = name
    THEN CHOOSE i \in StudentIds : Student(i).name = name
    ELSE 0

\* db.query(Student).filter(Student.fingerprint_id == token).first()
StudentByFingerprint(token) ==
    IF \E i \in StudentIds : Student(i).fingerprint_id = token
    THEN CHOOSE i \in StudentIds : Student(i).fingerprint_id = token
    ELSE 0

\* db.query(Student).filter(Student.id_card_code == token).first()
StudentByIdCard(token) ==
    IF \E i \in StudentIds : Student(i).id_card_code = token
    THEN CHOOSE i \in StudentIds : Student(i).id_card_code = token
    ELSE 0

\* (Student.id == claimed) | (Student.roll_number == claimed), .first()
StudentByIdOrRoll(claimed) ==
    IF \E i \in StudentIds : i = claimed \/ Student(i).roll_number = claimed
    THEN CHOOSE i \in StudentIds : i = claimed \/ Student(i).roll_number = claimed
    ELSE 0

NameOf(i) == IF i \in StudentIds THEN Student(i).name ELSE ""

-----------------------------------------------------------------------------
(* Status strings *)

BIOMETRIC_REQUIRED == "Biometric Required"
SESSION_NOT_FOUND == "Session not found"

\* the result of Python's  "Verified" in status  on the statuses the code writes
ContainsVerified(status) ==
    status \in {"Face Verified", "Verified", "Biometrically Verified",
                "ID Card Verified", "Verified (Manual Override)",
                "Verified (Biometric)"}

\* AttendanceLog.status.in_(["Verified", "Verified (Biometric)", "Face Verified"])
InMultiFrameAcceptedList(status) ==
    status \in {"Verified", "Verified (Biometric)", "Face Verified"}

-----------------------------------------------------------------------------
(* Matcher results: what face_service.verify_student returns for a frame.  *)

FrameError == [status |-> "error", match |-> FALSE, student_name |-> "", confidence |-> 0]
FrameNoFace == [status |-> "no_face", match |-> FALSE, student_name |-> "", confidence |-> 0]
FrameMultipleFaces ==
    [status |-> "multiple_faces", match |-> FALSE, student_name |-> "", confidence |-> 0]
FrameUnknown == [status |-> "success", match |-> FALSE, student_name |-> "", confidence |-> 0]
FrameMatched(name, c) ==
    [status |-> "success", match |-> TRUE, student_name |-> name, confidence |-> c]

-----------------------------------------------------------------------------
(* Responses *)

NoResponse ==
    [code |-> 0, success |-> FALSE, status |-> "", student_name |-> "",
     confidence |-> 0, proxy_suspected |-> FALSE, marked_at |-> 0, log_id |-> 0]

\* raise HTTPException(code, detail)
HttpError(code, detail) ==
    [NoResponse EXCEPT !.code = code, !.status = detail]

\* AttendanceMarkResponse(...), answered with 200
MarkResponse(success, status, name, confidence, proxy, marked_at, log_id) ==
    [code |-> 200, success |-> success, status |-> status, student_name |-> name,
     confidence |-> confidence, proxy_suspected |-> proxy, marked_at |-> marked_at,
     log_id |-> log_id]

INTERNAL_ERROR == "Internal Error"

-----------------------------------------------------------------------------
(* The attendance-log store: a sequence of AttendanceLog rows in insertion *)
(* order; a row's id is its position.                                      *)

LogRow(student_id, session_id, status, timestamp, confidence, proxy, method, coords) ==
    [student_id |-> student_id, session_id |-> session_id, status |-> status,
     timestamp |-> timestamp, confidence |-> confidence,
     is_proxy_suspected |-> proxy, verification_method |-> method,
     coords |-> coords, is_anomaly |-> FALSE]

\* query.first(): the lowest id among the matching rows, 0 when there is none
FirstOf(S) == IF S = {} THEN 0 ELSE CHOOSE i \in S : \A j \in S : i <= j

\* query.order_by(AttendanceLog.timestamp.desc()).first()
LatestOf(lg, S) ==
    IF S = {} THEN 0
    ELSE CHOOSE i \in S : \A j \in S :
            lg[j].timestamp < lg[i].timestamp \/ (lg[j].timestamp = lg[i].timestamp /\ i <= j)

-----------------------------------------------------------------------------
(* Sessions (models/session.py).  status "none" is an id with no row.      *)

SessionIds == 1..MaxSessions

NoSession == [status |-> "none", started_at |-> 0, ended_at |-> 0, require_liveness |-> FALSE]

SessionExists(ss, id) == id \in DOMAIN ss /\ ss[id].status # "none"

\* AttendanceSession.is_active
is_active(s) == s.status = "active"

\* AttendanceSession.start()
SessionStart(s, now) ==
    IF s.status = "pending" THEN [s EXCEPT !.status = "active", !.started_at = now] ELSE s

\* SessionEnd closing the session whatever its status
SessionEnd_Always(s, now) ==
    [s EXCEPT !.status = "ended", !.ended_at = now]

\* AttendanceSession.end()
SessionEnd(s, now) ==
    IF s.status = "active" THEN [s EXCEPT !.status = "ended", !.ended_at = now] ELSE s

\* GetSessionOrRaise without the is_active test
GetSessionOrRaise_NoActiveCheck(ss, session_id) ==
    IF session_id = 0 THEN NoResponse
    ELSE IF ~SessionExists(ss, session_id) THEN HttpError(404, SESSION_NOT_FOUND)
    ELSE NoResponse

\* _get_session_or_raise: the HTTP error it raises, NoResponse when it returns
GetSessionOrRaise(ss, session_id) ==
    IF session_id = 0 THEN NoResponse
    ELSE IF ~SessionExists(ss, session_id) THEN HttpError(404, SESSION_NOT_FOUND)
    ELSE IF ~is_active(ss[session_id]) THEN HttpError(400, "Session is not active")
    ELSE NoResponse

-----------------------------------------------------------------------------
(* Anomaly scoring as far as it decides whether the request goes on: the   *)
(* log handed to analyze_anomalies is not yet inserted, so its timestamp   *)
(* (a column default applied at insert) is None, and every subtraction     *)
(* that involves it raises TypeError.                                      *)

\* _check_time_anomaly(db, log.session_id, log.timestamp) with timestamp None
CheckTimeAnomalyRaises(ss, session_id) ==
    /\ SessionExists(ss, session_id)
    /\ (ss[session_id].ended_at # 0 \/ ss[session_id].started_at # 0)

\* _check_behavioral_anomaly(db, log, lat, lon) with log.timestamp None
CheckBehavioralAnomalyRaises(lg, student_id, coords) ==
    LET last == LatestOf(lg, {k \in 1..Len(lg) : lg[k].student_id = student_id})
    IN  last # 0 /\ lg[last].coords /\ coords

\* analyze_anomalies raises (and detect_anomalies with it)
DetectAnomaliesRaises(ss, lg, student_id, session_id, coords) ==
    \/ session_id # 0 /\ CheckTimeAnomalyRaises(ss, session_id)
    \/ student_id # 0 /\ CheckBehavioralAnomalyRaises(lg, student_id, coords)

-----------------------------------------------------------------------------
(* services/anomaly_service.py.  A position is a point on the meridian of  *)
(* the campus, given by its distance in metres north of the campus, so    *)
(* that the great-circle distance of two positions is the difference of   *)
(* their offsets.  Times are seconds, 0 is None.  Scores are counted in   *)
(* thousandths of a point, which keeps 30 * (dist / 5000) exact.           *)

MAX_DISTANCE_METERS == 500
IMPOSSIBLE_SPEED_MPS == 42
MAX_FAILED_ATTEMPTS == 5

WEIGHTS == [location |-> 30, time |-> 20, travel |-> 40, failed_attempts |-> 25, device |-> 15]

\* latitude and longitude both None
NoPosition == [given |-> FALSE, north |-> 0]

Position(north) == [given |-> TRUE, north |-> north]

\* the point of the campus meridian on the equator: its latitude is 0.0
EquatorNorth == -1442376

\* "lat and lon" (line 168): None and 0.0 are both falsy
Truthy(pos) == pos.given /\ pos.north # EquatorNorth

Abs(x) == IF x < 0 THEN -x ELSE x

Min2(a, b) == IF a <= b THEN a ELSE b

Max2(a, b) == IF a >= b THEN a ELSE b

\* haversine_distance, in metres
haversine_distance(a, b) ==
    IF ~a.given \/ ~b.given THEN 0 ELSE Abs(a.north - b.north)

\* calculate_risk_level, of a score in thousandths
calculate_risk_level(score) ==
    IF score >= 70000 THEN "CRITICAL"
    ELSE IF score >= 50000 THEN "HIGH"
    ELSE IF score >= 25000 THEN "MEDIUM"
    ELSE "LOW"

\* round(total_score, 1) on thousandths: the nearest tenth, a tie to the even one
Round1(m) ==
    LET q == m \div 100
        r == m % 100
    IN  IF r < 50 THEN 100 * q
        ELSE IF r > 50 THEN 100 * (q + 1)
        ELSE IF q % 2 = 0 THEN 100 * q ELSE 100 * (q + 1)

\* what a sub-check returns: (reasons, score), or raised
CheckResult(reasons, score) == [raised |-> FALSE, reasons |-> reasons, score |-> score]

CheckRaised == [raised |-> TRUE, reasons |-> <<>>, score |-> 0]

\* _check_location_anomaly without the geofence radius
CheckLocationAnomaly_NoRadius(pos) ==
    LET dist == haversine_distance(Position(0), pos)
    IN  IF pos.given /\ dist > 0
        THEN CheckResult(<<"Off-Campus Location">>,
                         Min2(1000 * WEIGHTS.location, ((1000 * WEIGHTS.location) \div 5000) * dist))
        ELSE CheckResult(<<>>, 0)

\* _check_location_anomaly(lat, lon)
CheckLocationAnomaly(pos) ==
    LET dist == haversine_distance(Position(0), pos)
    IN  IF pos.given /\ dist > MAX_DISTANCE_METERS
        THEN CheckResult(<<"Off-Campus Location">>,
                         Min2(1000 * WEIGHTS.location, ((1000 * WEIGHTS.location) \div 5000) * dist))
        ELSE CheckResult(<<>>, 0)

\* _check_time_anomaly(db, session_id, timestamp): session is the row found
\* (status "none" when there is none); a None timestamp makes either
\* subtraction raise TypeError
CheckTimeAnomaly(session, timestamp) ==
    IF session.status = "none" THEN CheckResult(<<>>, 0)
    ELSE IF timestamp = 0 /\ (session.ended_at # 0 \/ session.started_at # 0) THEN CheckRaised
    ELSE LET late == session.ended_at # 0 /\ timestamp - session.ended_at > 3600
             early == session.started_at # 0 /\ session.started_at - timestamp > 1800
             score1 == IF late THEN 1000 * WEIGHTS.time ELSE 0
             score2 == IF early THEN Max2(score1, 500 * WEIGHTS.time) ELSE score1
         IN  CheckResult((IF late THEN <<"Late Submission">> ELSE <<>>)
                            \o (IF early THEN <<"Early Submission">> ELSE <<>>),
                         score2)

\* _check_behavioral_anomaly(db, log, lat, lon): last_log is the latest other
\* log of the student (exists FALSE when there is none)
CheckBehavioralAnomaly(last_log, timestamp, pos) ==
    IF ~(last_log.exists /\ Truthy(last_log.pos) /\ Truthy(pos)) THEN CheckResult(<<>>, 0)
    ELSE IF timestamp = 0 THEN CheckRaised
    ELSE LET diff == Abs(timestamp - last_log.timestamp)
             time_diff == IF diff < 1 THEN 1 ELSE diff
             dist == haversine_distance(last_log.pos, pos)
         IN  IF dist > IMPOSSIBLE_SPEED_MPS * time_diff
             THEN CheckResult(<<"Impossible Travel">>, 1000 * WEIGHTS.travel)
             ELSE IF time_diff < 60 /\ dist > 1000
             THEN CheckResult(<<"Suspicious Rapid Movement">>, 600 * WEIGHTS.travel)
             ELSE CheckResult(<<>>, 0)

\* _check_failed_attempts(db, student_id, ip_address): failed_count and
\* ip_failed are what the two count() queries answer
CheckFailedAttempts(student_id, has_ip, failed_count, ip_failed) ==
    LET by_student ==
            IF student_id = 0 THEN CheckResult(<<>>, 0)
            ELSE IF failed_count >= MAX_FAILED_ATTEMPTS
            THEN CheckResult(<<"Repeated Failures">>, 1000 * WEIGHTS.failed_attempts)
            ELSE IF failed_count >= 3
            THEN CheckResult(<<"Multiple Failures">>, 500 * WEIGHTS.failed_attempts)
            ELSE CheckResult(<<>>, 0)
    IN  IF has_ip /\ ip_failed >= MAX_FAILED_ATTEMPTS * 2
        THEN CheckResult(by_student.reasons \o <<"Device Abuse">>,
                         Max2(by_student.score, 1000 * WEIGHTS.device))
        ELSE by_student

\* _check_device_anomaly(db, student_id, ip_address): unique_ips is what the
\* count(distinct ip_address) query answers
CheckDeviceAnomaly(student_id, has_ip, unique_ips) ==
    IF student_id = 0 \/ ~has_ip THEN CheckResult(<<>>, 0)
    ELSE IF unique_ips >= 3
    THEN CheckResult(<<"Multi-Device Activity">>, 1000 * WEIGHTS.device)
    ELSE CheckResult(<<>>, 0)

-----------------------------------------------------------------------------
(* detect_anomalies as /mark and /mark-multi call it: on a log that is not *)
(* inserted yet.  A request says whether it carries coordinates and        *)
(* whether they lie off campus; every request comes from the one client    *)
(* host, and every row of the store is recent enough for the 5-minute and  *)
(* 1-hour windows.                                                         *)

\* status LIKE '%Rejected%' OR status LIKE '%Failed%'
ContainsRejectedOrFailed(status) ==
    status \in {"Rejected: Fingerprint Not Found", "Rejected: ID Card Not Found",
                "Low Confidence - Rejected", "Liveness Failed"}

\* the failed_count query of _check_failed_attempts
FailedCount(lg, student_id) ==
    Cardinality({k \in 1..Len(lg) : /\ lg[k].student_id = student_id
                                     /\ ContainsRejectedOrFailed(lg[k].status)})

\* the ip_failed query of _check_failed_attempts
IpFailedCount(lg) ==
    Cardinality({k \in 1..Len(lg) : ContainsRejectedOrFailed(lg[k].status)})

\* the unique_ips query of _check_device_anomaly
UniqueIps(lg, student_id) ==
    IF \E k \in 1..Len(lg) : lg[k].student_id = student_id THEN 1 ELSE 0

\* the reasons detect_anomalies returns when no sub-check raises: with the
\* timestamp None the time and travel checks that return have found nothing
DetectAnomalies(lg, student_id, coords, off_campus) ==
    LET pos == IF ~coords THEN NoPosition
               ELSE IF off_campus THEN Position(2000) ELSE Position(0)
    IN  CheckLocationAnomaly(pos).reasons
            \o CheckFailedAttempts(student_id, TRUE, FailedCount(lg, student_id),
                                   IpFailedCount(lg)).reasons
            \o CheckDeviceAnomaly(student_id, TRUE, UniqueIps(lg, student_id)).reasons

\* an anomaly overwrites the decision the log carries
FlagAnomaly_Rejects(log, anomalies) ==
    IF anomalies # <<>>
    THEN [log EXCEPT !.is_anomaly = TRUE, !.status = "Rejected: Anomaly"]
    ELSE log

\* if anomalies: log.is_anomaly = True; log.anomaly_reason = ...
FlagAnomaly(log, anomalies) ==
    IF anomalies # <<>> THEN [log EXCEPT !.is_anomaly = TRUE] ELSE log

-----------------------------------------------------------------------------
(* The single-frame pipeline (/mark)                                       *)

\* _init_face_state
InitFaceState(verify_result) ==
    [status |-> "Unknown",
     confidence |-> verify_result.confidence,
     recognized_name |-> verify_result.student_name,
     proxy_suspected |-> FALSE,
     verification_method |-> "Face",
     db_student |-> 0,
     biometric_fallback |-> FALSE]

\* _apply_confidence_policy.  thresholds.FACE_CONFIDENCE_BIOMETRIC_REQUIRED is
\* read on line 84 and is no attribute of VerificationThresholds: evaluating
\* the comparison raises AttributeError.
ApplyConfidencePolicy(confidence) ==
    IF confidence < FACE_CONFIDENCE_REJECT
    THEN [raised |-> FALSE, biometric_fallback |-> TRUE, status |-> BIOMETRIC_REQUIRED]
    ELSE [raised |-> TRUE, biometric_fallback |-> FALSE, status |-> "Face Verified"]

\* _apply_claim_checks
ApplyClaimChecks(db_student, student_id, fingerprint_data, id_card_scan, st) ==
    LET s1 == IF student_id # 0
                 /\ Student(db_student).roll_number # student_id
                 /\ db_student # student_id
              THEN [st EXCEPT !.status = "Proxy Suspected: ID Mismatch",
                              !.proxy_suspected = TRUE]
              ELSE st
        s2 == IF fingerprint_data = 0 THEN s1
              ELSE LET m == [s1 EXCEPT !.verification_method = @ \o "+Fingerprint"]
                   IN  IF Student(db_student).fingerprint_id # fingerprint_data
                       THEN [m EXCEPT !.status = "Proxy Suspected: Fingerprint Mismatch",
                                      !.proxy_suspected = TRUE]
                       ELSE m
        s3 == IF id_card_scan = 0 THEN s2
              ELSE LET m == [s2 EXCEPT !.verification_method = @ \o "+IDCard"]
                   IN  IF Student(db_student).id_card_code # id_card_scan
                       THEN [m EXCEPT !.status = "Proxy Suspected: ID Card Mismatch",
                                      !.proxy_suspected = TRUE]
                       ELSE m
    IN  s3

\* _check_duplicate_attendance: the Already Marked response, NoResponse for None
CheckDuplicateAttendance(lg, session_id, db_student, status, confidence, recognized_name) ==
    IF session_id = 0 \/ db_student = 0 \/ ~ContainsVerified(status) THEN NoResponse
    ELSE LET existing == FirstOf({k \in 1..Len(lg) :
                            /\ lg[k].student_id = db_student
                            /\ lg[k].session_id = session_id
                            /\ ContainsVerified(lg[k].status)})
         IN  IF existing = 0 THEN NoResponse
             ELSE MarkResponse(FALSE, "Already Marked", recognized_name, confidence,
                               FALSE, lg[existing].timestamp, 0)

\* _process_face_result: the state, the duplicate response, and whether it raised
ProcessFaceResult(lg, verify_result, state, session_id, student_id, fingerprint_data, id_card_scan) ==
    LET out(st, dup, raised) == [state |-> st, duplicate |-> dup, raised |-> raised]
        fallback(st) == [st EXCEPT !.biometric_fallback = TRUE, !.status = BIOMETRIC_REQUIRED]
    IN  IF verify_result.status = "no_face" THEN out(fallback(state), NoResponse, FALSE)
        ELSE IF verify_result.status = "multiple_faces"
        THEN out([fallback(state) EXCEPT !.proxy_suspected = TRUE], NoResponse, FALSE)
        ELSE IF verify_result.status = "error" THEN out(fallback(state), NoResponse, FALSE)
        ELSE IF state.recognized_name = "" THEN out(state, NoResponse, FALSE)
        ELSE LET db_student == StudentByName(state.recognized_name)
                 s0 == [state EXCEPT !.db_student = db_student]
             IN  IF db_student = 0 THEN out(fallback(s0), NoResponse, FALSE)
                 ELSE LET pol == ApplyConfidencePolicy(s0.confidence)
                          s1 == [s0 EXCEPT !.biometric_fallback = pol.biometric_fallback,
                                           !.status = pol.status]
                          s2 == IF ~s1.biometric_fallback
                                THEN ApplyClaimChecks(db_student, student_id,
                                                      fingerprint_data, id_card_scan, s1)
                                ELSE s1
                      IN  IF pol.raised THEN out(s0, NoResponse, TRUE)
                          ELSE out(s2,
                                   CheckDuplicateAttendance(lg, session_id, db_student,
                                       s2.status, s2.confidence, s2.recognized_name),
                                   FALSE)

\* _apply_biometric_fallback
ApplyBiometricFallback(state, fingerprint_data, id_card_scan) ==
    IF ~state.biometric_fallback THEN state
    ELSE IF fingerprint_data # 0
    THEN LET fingerprint_student == StudentByFingerprint(fingerprint_data)
         IN  IF fingerprint_student # 0
             THEN [state EXCEPT !.verification_method = "Fingerprint",
                                !.status = "Biometrically Verified",
                                !.db_student = fingerprint_student,
                                !.recognized_name = NameOf(fingerprint_student),
                                !.confidence = 100]
             ELSE [state EXCEPT !.status = "Rejected: Fingerprint Not Found"]
    ELSE IF id_card_scan # 0
    THEN LET card_student == StudentByIdCard(id_card_scan)
         IN  IF card_student # 0
             THEN [state EXCEPT !.verification_method = "ID Card",
                                !.status = "ID Card Verified",
                                !.db_student = card_student,
                                !.recognized_name = NameOf(card_student),
                                !.confidence = 100]
             ELSE [state EXCEPT !.status = "Rejected: ID Card Not Found"]
    ELSE state

\* _build_attendance_response: the row it commits (written = FALSE when none is),
\* the response, and whether detect_anomalies raised before the commit
BuildAttendanceResponse(ss, lg, now, state, session_id, fingerprint_data, id_card_scan, coords, off_campus) ==
    IF state.biometric_fallback /\ fingerprint_data = 0 /\ id_card_scan = 0
    THEN [raised |-> FALSE, written |-> FALSE, log |-> <<>>,
          response |-> MarkResponse(FALSE, BIOMETRIC_REQUIRED, state.recognized_name,
                                    state.confidence, FALSE, 0, 0)]
    ELSE IF DetectAnomaliesRaises(ss, lg, state.db_student, session_id, coords)
    THEN [raised |-> TRUE, written |-> FALSE, log |-> <<>>, response |-> NoResponse]
    ELSE [raised |-> FALSE, written |-> TRUE,
          log |-> <<FlagAnomaly(LogRow(state.db_student, session_id, state.status, now,
                                       state.confidence, state.proxy_suspected,
                                       state.verification_method, coords),
                                DetectAnomalies(lg, state.db_student, coords, off_campus))>>,
          response |-> MarkResponse(ContainsVerified(state.status) /\ ~state.proxy_suspected,
                                    state.status, state.recognized_name, state.confidence,
                                    state.proxy_suspected, 0, Len(lg) + 1)]

-----------------------------------------------------------------------------
(* verification_service.py: verify_multi_frame                             *)

RECURSIVE SumSeq(_)
SumSeq(q) == IF q = <<>> THEN 0 ELSE Head(q) + SumSeq(Tail(q))

SeqRange(q) == {q[i] : i \in 1..Len(q)}

\* VerificationResult(...) with the defaults of the dataclass
VerificationResult(success, status, frame_count, frames_matched) ==
    [success |-> success, status |-> status, student_name |-> "",
     avg_confidence |-> 0, confidence_label |-> "UNKNOWN",
     frame_count |-> frame_count, frames_matched |-> frames_matched,
     is_proxy_suspected |-> FALSE, marked_at |-> 0]

\* the accumulators of the frame loop before its first iteration
VmfStart ==
    [frame_count |-> 0, multi_face_count |-> 0, no_face_count |-> 0,
     identities |-> <<>>, confidences |-> <<>>]

\* one iteration of the frame loop, on the matcher's result for the frame
VmfAccumulate(acc, result) ==
    LET counted == [acc EXCEPT !.frame_count = @ + 1]
    IN  IF result.status = "multiple_faces"
        THEN [counted EXCEPT !.multi_face_count = @ + 1]
        ELSE IF result.status = "no_face"
        THEN [counted EXCEPT !.no_face_count = @ + 1]
        ELSE IF result.status = "success" /\ result.match
        THEN [counted EXCEPT !.identities = Append(@, result.student_name),
                             !.confidences = Append(@, result.confidence)]
        ELSE counted

\* VerificationService._check_duplicate: the id of the existing row, 0 for None
CheckDuplicate(lg, student_name, session_id) ==
    LET student == StudentByName(student_name)
    IN  IF student = 0 THEN 0
        ELSE FirstOf({k \in 1..Len(lg) :
                 /\ lg[k].student_id = student
                 /\ lg[k].session_id = session_id
                 /\ InMultiFrameAcceptedList(lg[k].status)})

\* "check identity consistency": the result when too few frames matched
VmfInsufficient(acc) ==
    LET frames_matched == Len(acc.identities)
    IN  IF frames_matched = 0
        THEN VerificationResult(FALSE, "Face Not Recognized", acc.frame_count, 0)
        ELSE VerificationResult(FALSE,
                 "Inconsistent Recognition (" \o ToString(frames_matched) \o "/"
                     \o ToString(acc.frame_count) \o " frames)",
                 acc.frame_count, frames_matched)

\* the part of verify_multi_frame that follows a consistent identity
VmfConsistent(lg, acc, session_id, claimed_student_id) ==
    LET frames_matched == Len(acc.identities)
        recognized_name == acc.identities[1]
        avg_confidence == SumSeq(acc.confidences) \div Len(acc.confidences)
        base == [VerificationResult(FALSE, "", acc.frame_count, frames_matched)
                    EXCEPT !.student_name = recognized_name,
                           !.avg_confidence = avg_confidence,
                           !.confidence_label = get_confidence_label(avg_confidence)]
        claimed_student == StudentByIdOrRoll(claimed_student_id)
        is_proxy == /\ claimed_student_id # 0
                    /\ claimed_student # 0
                    /\ NameOf(claimed_student) # recognized_name
        dup_check == IF session_id # 0
                     THEN CheckDuplicate(lg, recognized_name, session_id) ELSE 0
    IN  IF avg_confidence < FACE_CONFIDENCE_REJECT
        THEN [base EXCEPT !.status = "Low Confidence - Rejected"]
        ELSE IF dup_check # 0
        THEN [base EXCEPT !.status = "Already Marked",
                          !.marked_at = lg[dup_check].timestamp]
        ELSE [base EXCEPT !.success = TRUE,
                          !.status = IF is_proxy THEN "Proxy Suspected: ID Mismatch"
                                     ELSE "Verified",
                          !.is_proxy_suspected = is_proxy]

\* VmfAnalyze without the comparison of the matched frames' identities
VmfAnalyze_NoIdentityCheck(lg, acc, session_id, claimed_student_id) ==
    LET frames_matched == Len(acc.identities)
    IN  IF acc.multi_face_count > 0 /\ MULTI_FACE_IS_PROXY_RISK
        THEN [VerificationResult(FALSE, "Proxy Suspected: Multiple Faces",
                                 acc.frame_count, frames_matched)
                 EXCEPT !.is_proxy_suspected = TRUE]
        ELSE IF acc.no_face_count = acc.frame_count
        THEN VerificationResult(FALSE, "No Face Detected", acc.frame_count, 0)
        ELSE IF frames_matched < REQUIRED_CONSISTENT_FRAMES
        THEN VmfInsufficient(acc)
        ELSE VmfConsistent(lg, acc, session_id, claimed_student_id)

\* VmfAnalyze asking for one matched frame instead of REQUIRED_CONSISTENT_FRAMES
VmfAnalyze_OneFrameEnough(lg, acc, session_id, claimed_student_id) ==
    LET frames_matched == Len(acc.identities)
    IN  IF acc.multi_face_count > 0 /\ MULTI_FACE_IS_PROXY_RISK
        THEN [VerificationResult(FALSE, "Proxy Suspected: Multiple Faces",
                                 acc.frame_count, frames_matched)
                 EXCEPT !.is_proxy_suspected = TRUE]
        ELSE IF acc.no_face_count = acc.frame_count
        THEN VerificationResult(FALSE, "No Face Detected", acc.frame_count, 0)
        ELSE IF frames_matched < 1
        THEN VmfInsufficient(acc)
        ELSE IF Cardinality(SeqRange(acc.identities)) > 1
        THEN [VerificationResult(FALSE, "Proxy Suspected: Identity Switch",
                                 acc.frame_count, frames_matched)
                 EXCEPT !.is_proxy_suspected = TRUE]
        ELSE VmfConsistent(lg, acc, session_id, claimed_student_id)

\* verify_multi_frame after the frame loop ("analyze results")
VmfAnalyze(lg, acc, session_id, claimed_student_id) ==
    LET frames_matched == Len(acc.identities)
    IN  IF acc.multi_face_count > 0 /\ MULTI_FACE_IS_PROXY_RISK
        THEN [VerificationResult(FALSE, "Proxy Suspected: Multiple Faces",
                                 acc.frame_count, frames_matched)
                 EXCEPT !.is_proxy_suspected = TRUE]
        ELSE IF acc.no_face_count = acc.frame_count
        THEN VerificationResult(FALSE, "No Face Detected", acc.frame_count, 0)
        ELSE IF frames_matched < REQUIRED_CONSISTENT_FRAMES
        THEN VmfInsufficient(acc)
        ELSE IF Cardinality(SeqRange(acc.identities)) > 1
        THEN [VerificationResult(FALSE, "Proxy Suspected: Identity Switch",
                                 acc.frame_count, frames_matched)
                 EXCEPT !.is_proxy_suspected = TRUE]
        ELSE VmfConsistent(lg, acc, session_id, claimed_student_id)

RECURSIVE VmfLoop(_, _)
VmfLoop(acc, frames) ==
    IF frames = <<>> THEN acc ELSE VmfLoop(VmfAccumulate(acc, Head(frames)), Tail(frames))

\* verify_multi_frame(frames, session_id, claimed_student_id, db)
VerifyMultiFrame(lg, frames, session_id, claimed_student_id) ==
    IF Len(frames) < 1 THEN VerificationResult(FALSE, "No frames provided", 0, 0)
    ELSE VmfAnalyze(lg, VmfLoop(VmfStart, frames), session_id, claimed_student_id)

-----------------------------------------------------------------------------
(* Requests.  A client connection has at most one request in flight; pc is *)
(* the handler's position, resp the answer once pc = "done".               *)

Procs == {1, 2}

\* the accepted rows of a session as a request finds them when it arrives
AcceptedIn(lg, session_id) ==
    {<<lg[i].student_id, lg[i].timestamp>> :
        i \in {k \in 1..Len(lg) :
                    lg[k].session_id = session_id /\ ContainsVerified(lg[k].status)}}

IdleReq ==
    [op |-> "idle", pc |-> "idle", session_id |-> 0, frames |-> <<>>,
     student_id |-> 0, fingerprint_data |-> 0, id_card_scan |-> 0,
     coords |-> FALSE, off_campus |-> FALSE, check_liveness |-> FALSE,
     st |-> InitFaceState(FrameNoFace),
     vr |-> VerificationResult(FALSE, "", 0, 0),
     liveness_called |-> FALSE, liveness_passed |-> FALSE,
     matcher_called |-> FALSE, accepted0 |-> {}, resp |-> NoResponse]

Done(r, response) == [r EXCEPT !.pc = "done", !.resp = response]


\* the handlers' "except Exception" clause: HTTPException(500, "Internal Error: ...")
InternalError(r) == Done(r, HttpError(500, INTERNAL_ERROR))

-----------------------------------------------------------------------------
(* POST /mark (mark_attendance)                                            *)

\* the request arrives: _get_session_or_raise, then the handler awaits file.read()
MarkStart(p, Inputs) ==
    /\ req[p].pc = "idle"
    /\ \E inp \in Inputs :
       LET r == [IdleReq EXCEPT !.op = "mark",
                                !.session_id = inp.session_id,
                                !.frames = <<inp.frame>>,
                                !.student_id = inp.student_id,
                                !.fingerprint_data = inp.fingerprint_data,
                                !.id_card_scan = inp.id_card_scan,
                                !.coords = inp.coords,
                                !.off_campus = inp.off_campus,
                                !.accepted0 = AcceptedIn(logs, inp.session_id)]
           err == GetSessionOrRaise(sessions, inp.session_id)
       IN  req' = [req EXCEPT ![p] = IF err.code # 0 THEN Done(r, err)
                                     ELSE [r EXCEPT !.pc = "verify"]]
    /\ UNCHANGED <<sessions, logs, clock, vmf, sess, anom, thresholds, detector, liveness, reg>>

\* face_service.verify_student, _init_face_state, _process_face_result
MarkVerify(p) ==
    /\ req[p].op = "mark" /\ req[p].pc = "verify"
    /\ LET r == [req[p] EXCEPT !.matcher_called = TRUE]
           verify_result == r.frames[1]
           out == ProcessFaceResult(logs, verify_result, InitFaceState(verify_result),
                                    r.session_id, r.student_id, r.fingerprint_data,
                                    r.id_card_scan)
       IN  req' = [req EXCEPT ![p] =
                      IF out.raised THEN InternalError([r EXCEPT !.st = out.state])
                      ELSE IF out.duplicate.code # 0
                      THEN Done([r EXCEPT !.st = out.state], out.duplicate)
                      ELSE [r EXCEPT !.st = out.state, !.pc = "build"]]
    /\ UNCHANGED <<sessions, logs, clock, vmf, sess, anom, thresholds, detector, liveness, reg>>

\* _apply_biometric_fallback, _build_attendance_response (detect_anomalies, commit)
MarkBuild(p) ==
    /\ req[p].op = "mark" /\ req[p].pc = "build"
    /\ LET r == req[p]
           state == ApplyBiometricFallback(r.st, r.fingerprint_data, r.id_card_scan)
           out == BuildAttendanceResponse(sessions, logs, clock, state, r.session_id,
                                          r.fingerprint_data, r.id_card_scan, r.coords,
                                          r.off_campus)
       IN  /\ out.written => clock < MaxClock
           /\ req' = [req EXCEPT ![p] =
                         IF out.raised THEN InternalError([r EXCEPT !.st = state])
                         ELSE Done([r EXCEPT !.st = state], out.response)]
           /\ logs' = logs \o out.log
           /\ clock' = IF out.written THEN clock + 1 ELSE clock
    /\ UNCHANGED <<sessions, vmf, sess, anom, thresholds, detector, liveness, reg>>

-----------------------------------------------------------------------------
(* POST /mark-multi (mark_attendance_multi)                                *)

\* the request arrives: _get_session_or_raise, require_liveness, then the
\* handler awaits _read_frames
MultiStart(p, Inputs) ==
    /\ req[p].pc = "idle"
    /\ \E inp \in Inputs :
       LET err == GetSessionOrRaise(sessions, inp.session_id)
           required == err.code = 0 /\ inp.session_id # 0
                       /\ sessions[inp.session_id].require_liveness
           r == [IdleReq EXCEPT !.op = "multi",
                                !.session_id = inp.session_id,
                                !.frames = inp.frames,
                                !.student_id = inp.student_id,
                                !.coords = inp.coords,
                                !.off_campus = inp.off_campus,
                                !.check_liveness = inp.check_liveness \/ required,
                                !.accepted0 = AcceptedIn(logs, inp.session_id)]
       IN  req' = [req EXCEPT ![p] = IF err.code # 0 THEN Done(r, err)
                                     ELSE [r EXCEPT !.pc = "verify"]]
    /\ UNCHANGED <<sessions, logs, clock, vmf, sess, anom, thresholds, detector, liveness, reg>>

\* the frame-count check, verify_multi_frame and the liveness check; live is
\* what liveness_service.check_liveness answers for these frames
MultiVerify(p, live) ==
    /\ req[p].op = "multi" /\ req[p].pc = "verify"
    /\ LET r == req[p]
           result == VerifyMultiFrame(logs, r.frames, r.session_id, r.student_id)
           checked == r.check_liveness /\ result.success
           liveness_passed == checked /\ live
           final == IF checked /\ ~liveness_passed
                    THEN [result EXCEPT !.success = FALSE, !.status = "Liveness Failed"]
                    ELSE result
       IN  req' = [req EXCEPT ![p] =
                      IF Len(r.frames) < REQUIRED_CONSISTENT_FRAMES
                      THEN Done(r, MarkResponse(FALSE,
                                   "Need " \o ToString(REQUIRED_CONSISTENT_FRAMES) \o "+ frames",
                                   "", 0, FALSE, 0, 0))
                      ELSE [r EXCEPT !.matcher_called = TRUE, !.vr = final,
                                     !.liveness_called = checked,
                                     !.liveness_passed = liveness_passed,
                                     !.pc = "insert"]]
    /\ UNCHANGED <<sessions, logs, clock, vmf, sess, anom, thresholds, detector, liveness, reg>>

\* the student lookup, the AttendanceLog, detect_anomalies and the commit
MultiInsert(p) ==
    /\ req[p].op = "multi" /\ req[p].pc = "insert"
    /\ LET r == req[p]
           result == r.vr
           db_student == IF result.student_name # ""
                         THEN StudentByName(result.student_name) ELSE 0
           raised == DetectAnomaliesRaises(sessions, logs, db_student, r.session_id, r.coords)
       IN  /\ ~raised => clock < MaxClock
           /\ req' = [req EXCEPT ![p] =
                         IF raised THEN InternalError(r)
                         ELSE Done(r, MarkResponse(result.success, result.status,
                                        result.student_name, result.avg_confidence,
                                        result.is_proxy_suspected, result.marked_at,
                                        Len(logs) + 1))]
           /\ logs' = IF raised THEN logs
                      ELSE Append(logs,
                                  FlagAnomaly(LogRow(db_student, r.session_id, result.status,
                                                     clock, result.avg_confidence,
                                                     result.is_proxy_suspected,
                                                     "Face+MultiFrame", r.coords),
                                              DetectAnomalies(logs, db_student, r.coords,
                                                              r.off_campus)))
           /\ clock' = IF raised THEN clock ELSE clock + 1
    /\ UNCHANGED <<sessions, vmf, sess, anom, thresholds, detector, liveness, reg>>

-----------------------------------------------------------------------------
(* POST /override (manual_override)                                        *)

\* the student and session lookups and the query for an existing accepted row
OverrideCheck(p, Inputs) ==
    /\ req[p].pc = "idle"
    /\ \E inp \in Inputs :
       LET r == [IdleReq EXCEPT !.op = "override",
                                !.session_id = inp.session_id,
                                !.student_id = inp.student_id,
                                !.accepted0 = AcceptedIn(logs, inp.session_id)]
           existing == FirstOf({k \in 1..Len(logs) :
                           /\ logs[k].student_id = inp.student_id
                           /\ logs[k].session_id = inp.session_id
                           /\ ContainsVerified(logs[k].status)})
       IN  req' = [req EXCEPT ![p] =
                      IF inp.student_id \notin StudentIds
                      THEN Done(r, HttpError(404, "Student not found"))
                      ELSE IF inp.session_id # 0 /\ ~SessionExists(sessions, inp.session_id)
                      THEN Done(r, HttpError(404, SESSION_NOT_FOUND))
                      ELSE IF existing # 0
                      THEN Done(r, [NoResponse EXCEPT !.code = 200,
                                       !.status = "Attendance already marked",
                                       !.marked_at = logs[existing].timestamp,
                                       !.log_id = existing])
                      ELSE [r EXCEPT !.pc = "insert"]]
    /\ UNCHANGED <<sessions, logs, clock, vmf, sess, anom, thresholds, detector, liveness, reg>>

\* the "Verified (Manual Override)" row and its commit
OverrideInsert(p) ==
    /\ req[p].op = "override" /\ req[p].pc = "insert"
    /\ clock < MaxClock
    /\ LET r == req[p]
       IN  /\ logs' = Append(logs, LogRow(r.student_id, r.session_id,
                                          "Verified (Manual Override)", clock, 100,
                                          FALSE, "Manual Override", FALSE))
           /\ req' = [req EXCEPT ![p] =
                         Done(r, [NoResponse EXCEPT !.code = 200, !.success = TRUE,
                                     !.status = "Manual override successful",
                                     !.student_name = NameOf(r.student_id),
                                     !.log_id = Len(logs) + 1])]
    /\ clock' = clock + 1
    /\ UNCHANGED <<sessions, vmf, sess, anom, thresholds, detector, liveness, reg>>

-----------------------------------------------------------------------------
(* POST /manual/submit (manual_bulk_submit)                                *)

\* the loop over payload.entries: lg0 is the committed table the queries read
\* (the session does not autoflush), cur the rows with this request's updates,
\* adds the rows it has added
RECURSIVE ManualLoop(_, _, _, _, _, _)
ManualLoop(lg0, cur, adds, entries, session_id, now) ==
    IF entries = <<>> THEN cur \o adds
    ELSE LET entry == Head(entries)
             status_label == IF entry.status = "present" THEN "Present (Manual)"
                             ELSE "Absent (Manual)"
             existing == FirstOf({k \in 1..Len(lg0) :
                             /\ lg0[k].student_id = entry.student_id
                             /\ lg0[k].session_id = session_id})
         IN  IF entry.student_id \notin StudentIds
             THEN ManualLoop(lg0, cur, adds, Tail(entries), session_id, now)
             ELSE IF existing # 0
             THEN ManualLoop(lg0,
                             [cur EXCEPT ![existing].status = status_label,
                                         ![existing].timestamp = now,
                                         ![existing].verification_method = "Manual Entry"],
                             adds, Tail(entries), session_id, now)
             ELSE ManualLoop(lg0, cur,
                             Append(adds, LogRow(entry.student_id, session_id, status_label,
                                                 now, 100, FALSE, "Manual Entry", FALSE)),
                             Tail(entries), session_id, now)

\* the whole handler, one transaction
ManualSubmit(p, Inputs) ==
    /\ req[p].pc = "idle"
    /\ \E inp \in Inputs :
       LET r == [IdleReq EXCEPT !.op = "manual", !.session_id = inp.session_id]
           rejected == inp.entries = <<>>
                       \/ (inp.session_id # 0 /\ ~SessionExists(sessions, inp.session_id))
           after == ManualLoop(logs, logs, <<>>, inp.entries, inp.session_id, clock)
       IN  IF rejected
           THEN /\ req' = [req EXCEPT ![p] =
                              Done(r, IF inp.entries = <<>>
                                      THEN HttpError(400, "No entries provided")
                                      ELSE HttpError(404, SESSION_NOT_FOUND))]
                /\ UNCHANGED <<logs, clock>>
           ELSE /\ after # logs => clock < MaxClock
                /\ req' = [req EXCEPT ![p] =
                              Done(r, [NoResponse EXCEPT !.code = 200,
                                          !.status = "Manual attendance submitted"])]
                /\ logs' = after
                /\ clock' = IF after # logs THEN clock + 1 ELSE clock
    /\ UNCHANGED <<sessions, vmf, sess, anom, thresholds, detector, liveness, reg>>

-----------------------------------------------------------------------------
(* sessions.py                                                             *)

\* POST /start (create_and_start_session): the next id, active, started now
StartSession(require_liveness) ==
    /\ \E id \in SessionIds :
          /\ ~SessionExists(sessions, id)
          /\ \A j \in SessionIds : j < id => SessionExists(sessions, j)
          /\ sessions' = [sessions EXCEPT ![id] =
                            [status |-> "active", started_at |-> clock, ended_at |-> 0,
                             require_liveness |-> require_liveness]]
    /\ UNCHANGED <<logs, clock, req, vmf, sess, anom, thresholds, detector, liveness, reg>>

\* PATCH /{session_id}/end (end_session): 404 and 400 leave the row as it is
EndSession(id) ==
    /\ sessions' = IF SessionExists(sessions, id) /\ sessions[id].status = "active"
                   THEN [sessions EXCEPT ![id] = SessionEnd(@, clock)]
                   ELSE sessions
    /\ UNCHANGED <<logs, clock, req, vmf, sess, anom, thresholds, detector, liveness, reg>>

\* the response has been sent; the connection is free for its next request
Retire(p) ==
    /\ req[p].pc = "done"
    /\ req' = [req EXCEPT ![p] = IdleReq]
    /\ UNCHANGED <<sessions, logs, clock, vmf, sess, anom, thresholds, detector, liveness, reg>>

-----------------------------------------------------------------------------
(* A VerificationThresholds object (core/config_thresholds.py): its        *)
(* construction and the calls made on it.  The last two calls of           *)
(* get_confidence_label are kept, each with its argument and its answer.   *)

\* no object yet
ThresholdsIdle ==
    [constructed |-> FALSE, self |-> VerificationThresholds(0, 0, 0, 0),
     calls |-> <<>>, exported |-> FALSE]

\* t = VerificationThresholds(**kwargs)
ThresholdsNew(Kwargs) ==
    /\ ~thresholds.constructed
    /\ \E k \in Kwargs :
          thresholds' = [ThresholdsIdle EXCEPT
                            !.constructed = TRUE,
                            !.self = VerificationThresholds(k.high, k.medium, k.low, k.reject)]
    /\ UNCHANGED <<sessions, logs, clock, req, vmf, sess, anom, detector, liveness, reg>>

\* t.get_confidence_label(confidence)
LabelCall(Confidences) ==
    /\ thresholds.constructed
    /\ \E c \in Confidences :
          LET call == [confidence |-> c, label |-> GetConfidenceLabel(thresholds.self, c)]
          IN  thresholds' = [thresholds EXCEPT
                                !.calls = IF Len(@) < 2 THEN Append(@, call)
                                          ELSE <<@[2], call>>]
    /\ UNCHANGED <<sessions, logs, clock, req, vmf, sess, anom, detector, liveness, reg>>

\* GET /thresholds: get_thresholds returns t.to_dict()
GetThresholds ==
    /\ thresholds.constructed
    /\ thresholds' = [thresholds EXCEPT !.exported = TRUE]
    /\ UNCHANGED <<sessions, logs, clock, req, vmf, sess, anom, detector, liveness, reg>>

-----------------------------------------------------------------------------
(* One call of LivenessService.check_liveness (services/liveness_service   *)
(* .py), one frame per step.  A frame is what decoding and the landmark    *)
(* detector make of it: it cannot be decoded, it shows no face, or it has  *)
(* an eye aspect ratio, counted in hundredths.                             *)

EAR_BLINK_THRESHOLD == 21
MIN_BLINK_FRAMES == 2

\* cv2.imdecode returns None
UndecodableFrame == [decoded |-> FALSE, face |-> FALSE, ear |-> 0]

\* get_eye_landmarks returns (None, None)
NoFaceFrame == [decoded |-> TRUE, face |-> FALSE, ear |-> 0]

\* a frame whose two eyes have the average aspect ratio ear
EarFrame(ear) == [decoded |-> TRUE, face |-> TRUE, ear |-> ear]

\* check_liveness before it is called
LivenessIdle ==
    [pc |-> "idle", landmarks_available |-> FALSE, frames |-> <<>>, i |-> 0,
     ear_values |-> <<>>, blink_count |-> 0, in_blink |-> FALSE, consecutive_closed |-> 0,
     passed |-> FALSE, message |-> ""]

\* check_liveness(frames) up to the frame loop: the simulated pass without
\* MediaPipe and the refusal of fewer than three frames
CheckLivenessStart(Inputs) ==
    /\ liveness.pc = "idle"
    /\ \E inp \in Inputs :
          LET l == [LivenessIdle EXCEPT !.landmarks_available = inp.landmarks_available,
                                        !.frames = inp.frames]
          IN  liveness' =
                  IF ~inp.landmarks_available
                  THEN [l EXCEPT !.pc = "done", !.passed = TRUE, !.blink_count = 1,
                                 !.message = "Liveness simulated (MediaPipe not available)"]
                  ELSE IF Len(inp.frames) < 3
                  THEN [l EXCEPT !.pc = "done",
                                 !.message = "Insufficient frames for liveness check (need 3+)"]
                  ELSE [l EXCEPT !.pc = "loop", !.i = 1]
    /\ UNCHANGED <<sessions, logs, clock, req, vmf, sess, anom, thresholds, detector, reg>>

\* the body of "for frame_bytes in frames" on one frame
BlinkStep(l, frame) ==
    IF ~frame.decoded THEN l
    ELSE IF ~frame.face THEN [l EXCEPT !.ear_values = Append(@, -1)]
    ELSE IF frame.ear < EAR_BLINK_THRESHOLD
    THEN [l EXCEPT !.ear_values = Append(@, frame.ear),
                   !.consecutive_closed = @ + 1,
                   !.in_blink = @ \/ l.consecutive_closed + 1 >= MIN_BLINK_FRAMES]
    ELSE [l EXCEPT !.ear_values = Append(@, frame.ear),
                   !.blink_count = IF l.in_blink THEN @ + 1 ELSE @,
                   !.in_blink = FALSE,
                   !.consecutive_closed = 0]

\* one iteration of the frame loop
LivenessFrame ==
    /\ liveness.pc = "loop"
    /\ liveness.i <= Len(liveness.frames)
    /\ liveness' = [BlinkStep(liveness, liveness.frames[liveness.i]) EXCEPT !.i = @ + 1]
    /\ UNCHANGED <<sessions, logs, clock, req, vmf, sess, anom, thresholds, detector, reg>>

\* "Determine result": passed, the message and the LivenessResult
LivenessFinish ==
    /\ liveness.pc = "loop"
    /\ liveness.i > Len(liveness.frames)
    /\ LET passed == liveness.blink_count >= 1
           seen == {k \in 1..Len(liveness.ear_values) : liveness.ear_values[k] > 0}
       IN  liveness' = [liveness EXCEPT
                           !.pc = "done",
                           !.passed = passed,
                           !.message = IF passed THEN "Liveness verified"
                                       ELSE IF seen = {}
                                       THEN "Liveness failed: No face detected in frames"
                                       ELSE "Liveness failed: No blink detected - please blink naturally"]
    /\ UNCHANGED <<sessions, logs, clock, req, vmf, sess, anom, thresholds, detector, reg>>

-----------------------------------------------------------------------------
(* The FaceDetector of the FaceService singleton (models/face_model.py):   *)
(* one thread in force_retrain / _train_all and one in recognize_face, a   *)
(* statement per step.  known_face_labels is a sequence of names, label k  *)
(* at position k + 1; the LBPH recognizer is given by the names of the     *)
(* labels it was trained with.                                             *)

\* folder.name.replace('_', ' ').title()
Title(folder) ==
    CASE folder = "alice" -> "Alice"
      [] folder = "bob" -> "Bob"
      [] folder = "carol" -> "Carol"
      [] OTHER -> folder

\* the label of a name in a sequence of names, -1 when it has none
LabelOf(names, name) ==
    IF \E k \in 1..Len(names) : names[k] = name
    THEN (CHOOSE k \in 1..Len(names) : names[k] = name) - 1
    ELSE -1

\* a FaceDetector with a model trained on the folders of listing, in the
\* order DATA_FACE_DIR.iterdir() gave them
TrainedOn(listing) ==
    [known_face_labels |-> [k \in 1..Len(listing) |-> Title(listing[k])],
     recognizer |-> [k \in 1..Len(listing) |-> Title(listing[k])],
     is_trained |-> Len(listing) > 0]

TrainIdle == [pc |-> "idle", listing |-> <<>>, k |-> 0, name_to_label |-> <<>>]

RecognizeIdle ==
    [pc |-> "idle", face |-> "", label |-> -1, matched |-> FALSE, name |-> "",
     seen_recognizer |-> <<>>, seen_labels |-> <<>>]

\* the detector, the model it held when the retrain began, and the two calls
DetectorIdle ==
    [known_face_labels |-> <<>>, label_counter |-> 0, recognizer |-> <<>>,
     is_trained |-> FALSE,
     old |-> TrainedOn(<<>>), train |-> TrainIdle, rec |-> RecognizeIdle]

\* force_retrain() enters _train_all: "self.known_face_labels = {}"
TrainClearLabels(Listings) ==
    /\ detector.train.pc = "idle"
    /\ \E listing \in Listings :
          detector' = [detector EXCEPT
                          !.old = [known_face_labels |-> detector.known_face_labels,
                                   recognizer |-> detector.recognizer,
                                   is_trained |-> detector.is_trained],
                          !.known_face_labels = <<>>,
                          !.train = [TrainIdle EXCEPT !.pc = "counter", !.listing = listing]]
    /\ UNCHANGED <<sessions, logs, clock, req, vmf, sess, anom, thresholds, liveness, reg>>

\* "self.label_counter = 0" and the empty locals
TrainResetCounter ==
    /\ detector.train.pc = "counter"
    /\ detector' = [detector EXCEPT !.label_counter = 0,
                                    !.train.pc = "scan", !.train.k = 1]
    /\ UNCHANGED <<sessions, logs, clock, req, vmf, sess, anom, thresholds, liveness, reg>>

\* one iteration of "for folder in DATA_FACE_DIR.iterdir()": a new name gets
\* the next label
TrainScanFolder ==
    /\ detector.train.pc = "scan"
    /\ detector.train.k <= Len(detector.train.listing)
    /\ LET name == Title(detector.train.listing[detector.train.k])
           fresh == LabelOf(detector.train.name_to_label, name) = -1
       IN  detector' = [detector EXCEPT
                           !.known_face_labels = IF fresh THEN Append(@, name) ELSE @,
                           !.label_counter = IF fresh THEN @ + 1 ELSE @,
                           !.train.name_to_label = IF fresh THEN Append(@, name) ELSE @,
                           !.train.k = @ + 1]
    /\ UNCHANGED <<sessions, logs, clock, req, vmf, sess, anom, thresholds, liveness, reg>>

\* "if faces: self.recognizer.train(faces, np.array(labels))", else return False
TrainRecognizer ==
    /\ detector.train.pc = "scan"
    /\ detector.train.k > Len(detector.train.listing)
    /\ detector' = IF detector.train.name_to_label # <<>>
                   THEN [detector EXCEPT !.recognizer = detector.train.name_to_label,
                                         !.train.pc = "trained"]
                   ELSE [detector EXCEPT !.train.pc = "done"]
    /\ UNCHANGED <<sessions, logs, clock, req, vmf, sess, anom, thresholds, liveness, reg>>

\* "self.is_trained = True", _save_cache, return True
TrainSetTrained ==
    /\ detector.train.pc = "trained"
    /\ detector' = [detector EXCEPT !.is_trained = TRUE, !.train.pc = "done"]
    /\ UNCHANGED <<sessions, logs, clock, req, vmf, sess, anom, thresholds, liveness, reg>>

\* recognize_face(frame, rect) on a frame that shows face: "if not
\* self.is_trained: return 'Unknown', 0.0, 999.0"
RecognizeStart(Faces) ==
    /\ detector.rec.pc = "idle"
    /\ \E face \in Faces :
          detector' = [detector EXCEPT
                          !.rec = [RecognizeIdle EXCEPT
                                      !.face = face,
                                      !.name = "Unknown",
                                      !.pc = IF detector.is_trained THEN "predict" ELSE "done"]]
    /\ UNCHANGED <<sessions, logs, clock, req, vmf, sess, anom, thresholds, liveness, reg>>

\* "label, dist = self.recognizer.predict(roi)": the label the recognizer was
\* trained with for this face, within max_distance only if it has one
RecognizePredict ==
    /\ detector.rec.pc = "predict"
    /\ LET label == LabelOf(detector.recognizer, detector.rec.face)
       IN  detector' = [detector EXCEPT
                           !.rec.label = IF label = -1 THEN 0 ELSE label,
                           !.rec.matched = label # -1,
                           !.rec.seen_recognizer = detector.recognizer,
                           !.rec.pc = "lookup"]
    /\ UNCHANGED <<sessions, logs, clock, req, vmf, sess, anom, thresholds, liveness, reg>>

\* "if dist <= self.max_distance: best_name = self.known_face_labels.get(label,
\* 'Unknown')" and the return
RecognizeLookup ==
    /\ detector.rec.pc = "lookup"
    /\ LET labels == detector.known_face_labels
           r == detector.rec
       IN  detector' = IF ~r.matched THEN [detector EXCEPT !.rec.pc = "done"]
                       ELSE [detector EXCEPT
                                !.rec.name = IF r.label + 1 \in 1..Len(labels)
                                             THEN labels[r.label + 1] ELSE "Unknown",
                                !.rec.seen_labels = labels,
                                !.rec.pc = "done"]
    /\ UNCHANGED <<sessions, logs, clock, req, vmf, sess, anom, thresholds, liveness, reg>>

-----------------------------------------------------------------------------
(* POST /register (register) on the students table and the face folders.   *)
(* A student row is a Student record; its id is its position in the table. *)

MaxRegistrations == 2

\* the methods FaceService defines (services/face_service.py)
FaceServiceMethods == {"verify_student"}

\* the table, the number of images in each face folder, and the request
RegIdle ==
    [students |-> <<>>, files |-> [f \in {"alice", "carol"} |-> 0], served |-> 0,
     pc |-> "idle", name |-> "", roll_number |-> 0, fingerprint_id |-> 0, id_card_code |-> 0,
     students0 |-> <<>>, code |-> 0, detail |-> ""]

\* the handler's "except Exception": db.rollback() and HTTPException(500,
\* "Registration failed: ..."); a committed row stays
RegistrationFailed(r, students, why) ==
    [r EXCEPT !.pc = "done", !.students = students, !.code = 500,
              !.detail = "Registration failed: " \o why]

\* a unique column of the new row repeats a value of the table
ViolatesUnique(students, row) ==
    \E k \in 1..Len(students) :
        \/ students[k].roll_number = row.roll_number
        \/ row.fingerprint_id # 0 /\ students[k].fingerprint_id = row.fingerprint_id
        \/ row.id_card_code # 0 /\ students[k].id_card_code = row.id_card_code

\* the request arrives: the roll-number lookup, the folder, next_index, and
\* the handler awaits file.read()
RegisterStart(Inputs) ==
    /\ reg.pc \in {"idle", "done"}
    /\ reg.served < MaxRegistrations
    /\ \E inp \in Inputs :
          LET r == [reg EXCEPT !.served = @ + 1,
                               !.name = inp.name, !.roll_number = inp.roll_number,
                               !.fingerprint_id = inp.fingerprint_id,
                               !.id_card_code = inp.id_card_code,
                               !.students0 = reg.students, !.code = 0, !.detail = ""]
              existing == \E k \in 1..Len(reg.students) :
                              reg.students[k].roll_number = inp.roll_number
          IN  reg' = IF existing
                     THEN RegistrationFailed(r, reg.students,
                                             "400: Student already registered (Roll No exists)")
                     ELSE [r EXCEPT !.pc = "save"]
    /\ UNCHANGED <<sessions, logs, clock, req, vmf, sess, anom, thresholds, detector, liveness>>

\* the image is written to the folder, and the handler reaches db.add
RegisterSave ==
    /\ reg.pc = "save"
    /\ reg' = [reg EXCEPT !.files[reg.name] = @ + 1, !.pc = "commit"]
    /\ UNCHANGED <<sessions, logs, clock, req, vmf, sess, anom, thresholds, detector, liveness>>

\* db.add(new_student), db.commit(), db.refresh(new_student)
RegisterCommit ==
    /\ reg.pc = "commit"
    /\ LET new_student == [id |-> Len(reg.students) + 1, name |-> reg.name,
                           roll_number |-> reg.roll_number,
                           fingerprint_id |-> reg.fingerprint_id,
                           id_card_code |-> reg.id_card_code]
       IN  reg' = IF ViolatesUnique(reg.students, new_student)
                  THEN RegistrationFailed(reg, reg.students, "IntegrityError")
                  ELSE [reg EXCEPT !.students = Append(@, new_student), !.pc = "retrain"]
    /\ UNCHANGED <<sessions, logs, clock, req, vmf, sess, anom, thresholds, detector, liveness>>

\* face_service.retrain_model() and the success answer
RegisterRetrain ==
    /\ reg.pc = "retrain"
    /\ reg' = IF "retrain_model" \in FaceServiceMethods
              THEN [reg EXCEPT !.pc = "done", !.code = 200,
                               !.detail = "Student registered successfully"]
              ELSE RegistrationFailed(reg, reg.students, "AttributeError")
    /\ UNCHANGED <<sessions, logs, clock, req, vmf, sess, anom, thresholds, detector, liveness>>

-----------------------------------------------------------------------------
(* One AttendanceSession object (models/session.py) and the start() and    *)
(* end() calls made on it.  Every call reads datetime.utcnow(), later than  *)
(* the reading before it.                                                  *)

\* the object, the method last called on it, and how often each timestamp
\* has been given a value
SessIdle == [obj |-> NoSession, call |-> "", started_sets |-> 0, ended_sets |-> 0]

\* session.start() or session.end()
SessionCall(method) ==
    /\ clock < MaxSessionClock
    /\ LET after == IF method = "start" THEN SessionStart(sess.obj, clock)
                     ELSE SessionEnd(sess.obj, clock)
       IN  sess' = [obj |-> after,
                    call |-> method,
                    started_sets |-> sess.started_sets
                        + (IF after.started_at # sess.obj.started_at THEN 1 ELSE 0),
                    ended_sets |-> sess.ended_sets
                        + (IF after.ended_at # sess.obj.ended_at THEN 1 ELSE 0)]
    /\ clock' = clock + 1
    /\ UNCHANGED <<sessions, logs, req, vmf, anom, thresholds, detector, liveness, reg>>

-----------------------------------------------------------------------------
(* analyze_anomalies, one sub-check per step                               *)

\* the sum of the five sub-scores without the cap
CapScore_NoCap(total_score) == total_score

\* total_score = min(100, total_score)
CapScore(total_score) == Min2(100000, total_score)

\* analyze_anomalies before its first sub-check: the arguments, what the
\* queries will answer, and the accumulators
AnomIdle ==
    [pc |-> "idle",
     student_id |-> 0, session_id |-> 0, timestamp |-> 0, has_ip |-> FALSE,
     pos |-> NoPosition, session |-> NoSession,
     last_log |-> [exists |-> FALSE, pos |-> NoPosition, timestamp |-> 0],
     failed_count |-> 0, ip_failed |-> 0, unique_ips |-> 0,
     all_reasons |-> <<>>, total_score |-> 0,
     scores |-> [location |-> 0, time |-> 0, travel |-> 0, failed_attempts |-> 0, device |-> 0],
     risk_score |-> 0, risk_level |-> "LOW", is_anomaly |-> FALSE]

\* one sub-check has returned or raised: extend the reasons, add the score
AnomAfter(a, name, result, next_pc) ==
    IF result.raised THEN [a EXCEPT !.pc = "raised"]
    ELSE [a EXCEPT !.pc = next_pc,
                   !.all_reasons = @ \o result.reasons,
                   !.total_score = @ + result.score,
                   !.scores[name] = result.score]

\* analyze_anomalies(db, log, lat, lon) is called
AnalyzeStart(Inputs) ==
    /\ anom.pc = "idle"
    /\ \E inp \in Inputs :
          anom' = [AnomIdle EXCEPT !.pc = "location",
                                   !.student_id = inp.student_id,
                                   !.session_id = inp.session_id,
                                   !.timestamp = inp.timestamp,
                                   !.has_ip = inp.has_ip,
                                   !.pos = inp.pos,
                                   !.session = inp.session,
                                   !.last_log = inp.last_log,
                                   !.failed_count = inp.failed_count,
                                   !.ip_failed = inp.ip_failed,
                                   !.unique_ips = inp.unique_ips]
    /\ UNCHANGED <<sessions, logs, clock, req, vmf, sess, thresholds, detector, liveness, reg>>

\* 1. Location Anomaly
AnalyzeLocation ==
    /\ anom.pc = "location"
    /\ anom' = AnomAfter(anom, "location", CheckLocationAnomaly(anom.pos), "time")
    /\ UNCHANGED <<sessions, logs, clock, req, vmf, sess, thresholds, detector, liveness, reg>>

\* 2. Time Anomaly, if log.session_id
AnalyzeTime ==
    /\ anom.pc = "time"
    /\ anom' = IF anom.session_id # 0
               THEN AnomAfter(anom, "time",
                              CheckTimeAnomaly(anom.session, anom.timestamp), "travel")
               ELSE [anom EXCEPT !.pc = "travel"]
    /\ UNCHANGED <<sessions, logs, clock, req, vmf, sess, thresholds, detector, liveness, reg>>

\* 3. Behavioral Anomaly, if log.student_id
AnalyzeTravel ==
    /\ anom.pc = "travel"
    /\ anom' = IF anom.student_id # 0
               THEN AnomAfter(anom, "travel",
                              CheckBehavioralAnomaly(anom.last_log, anom.timestamp, anom.pos),
                              "failed_attempts")
               ELSE [anom EXCEPT !.pc = "failed_attempts"]
    /\ UNCHANGED <<sessions, logs, clock, req, vmf, sess, thresholds, detector, liveness, reg>>

\* 4. Failed Attempts
AnalyzeFailedAttempts ==
    /\ anom.pc = "failed_attempts"
    /\ anom' = AnomAfter(anom, "failed_attempts",
                         CheckFailedAttempts(anom.student_id, anom.has_ip,
                                             anom.failed_count, anom.ip_failed),
                         "device")
    /\ UNCHANGED <<sessions, logs, clock, req, vmf, sess, thresholds, detector, liveness, reg>>

\* 5. Device Anomaly
AnalyzeDevice ==
    /\ anom.pc = "device"
    /\ anom' = AnomAfter(anom, "device",
                         CheckDeviceAnomaly(anom.student_id, anom.has_ip, anom.unique_ips),
                         "cap")
    /\ UNCHANGED <<sessions, logs, clock, req, vmf, sess, thresholds, detector, liveness, reg>>

\* the cap, the risk level and the AnomalyResult
AnalyzeFinish ==
    /\ anom.pc = "cap"
    /\ LET total_score == CapScore(anom.total_score)
       IN  anom' = [anom EXCEPT !.pc = "done",
                                !.total_score = total_score,
                                !.risk_level = calculate_risk_level(total_score),
                                !.risk_score = Round1(total_score),
                                !.is_anomaly = Len(anom.all_reasons) > 0]
    /\ UNCHANGED <<sessions, logs, clock, req, vmf, sess, thresholds, detector, liveness, reg>>

-----------------------------------------------------------------------------
(* One call of verify_multi_frame, one frame per step                      *)

VmfIdle ==
    [pc |-> "loop", acc |-> VmfStart, session_id |-> 0, claimed_student_id |-> 0,
     result |-> VerificationResult(FALSE, "", 0, 0)]

\* the matcher's possible answers for a frame
VmfFrames ==
    {FrameError, FrameNoFace, FrameMultipleFaces, FrameUnknown}
        \cup {FrameMatched(n, c) : n \in {"alice", "bob"}, c \in {30, 95}}

\* one iteration of "for i, frame_bytes in enumerate(frames)"
VmfFrame(result) ==
    /\ vmf.pc = "loop"
    /\ vmf.acc.frame_count < MaxVmfFrames
    /\ vmf' = [vmf EXCEPT !.acc = VmfAccumulate(@, result)]
    /\ UNCHANGED <<sessions, logs, clock, req, sess, anom, thresholds, detector, liveness, reg>>

\* the rest of the call, for the session and claimed identity it was given
VmfFinish(session_id, claimed_student_id) ==
    /\ vmf.pc = "loop"
    /\ vmf' = [vmf EXCEPT
                  !.pc = "done",
                  !.session_id = session_id,
                  !.claimed_student_id = claimed_student_id,
                  !.result = IF vmf.acc.frame_count < 1
                             THEN VerificationResult(FALSE, "No frames provided", 0, 0)
                             ELSE VmfAnalyze(logs, vmf.acc, session_id, claimed_student_id)]
    /\ UNCHANGED <<sessions, logs, clock, req, sess, anom, thresholds, detector, liveness, reg>>

-----------------------------------------------------------------------------
(* The inputs the clients send                                             *)

\* session ids a request may name: none (0), every id, and one past the last
SessionArgs == 0..(MaxSessions + 1)

MarkInputs ==
    [session_id : SessionArgs,
     frame : {FrameNoFace},
     student_id : {0},
     fingerprint_data : {0, 21},
     id_card_scan : {0},
     coords : {FALSE},
     off_campus : {FALSE}]

MultiInputs ==
    [session_id : SessionArgs,
     frames : {<<FrameMatched("alice", 95), FrameMatched("alice", 95),
                 FrameMatched("alice", 95)>>},
     student_id : {0},
     check_liveness : {FALSE},
     coords : {FALSE},
     off_campus : {FALSE}]

OverrideInputs == [session_id : SessionArgs, student_id : {1}]

ManualEntries == [student_id : {1}, status : {"present"}]

RECURSIVE SeqsUpTo(_, _)
SeqsUpTo(S, n) ==
    IF n = 0 THEN {<<>>}
    ELSE LET shorter == SeqsUpTo(S, n - 1)
         IN  shorter \cup {Append(q, x) : q \in shorter, x \in S}

ManualInputs == [session_id : SessionArgs, entries : SeqsUpTo(ManualEntries, MaxEntries)]

-----------------------------------------------------------------------------
(* The system: the store, the sessions and the clients' requests           *)

NoRows == [i \in SessionIds |-> NoSession]

\* an empty store, or one holding a session row created with the column
\* defaults (status pending, never started)
Init ==
    /\ sessions \in {NoRows, [NoRows EXCEPT ![1].status = "pending"]}
    /\ logs = <<>>
    /\ clock = 1
    /\ req = [p \in Procs |-> IdleReq]
    /\ vmf = VmfIdle
    /\ sess = SessIdle
    /\ anom = AnomIdle
    /\ thresholds = ThresholdsIdle
    /\ detector = DetectorIdle
    /\ liveness = LivenessIdle
    /\ reg = RegIdle

Next ==
    \/ \E p \in Procs : MarkStart(p, MarkInputs)
    \/ \E p \in Procs : MarkVerify(p)
    \/ \E p \in Procs : MarkBuild(p)
    \/ \E p \in Procs : MultiStart(p, MultiInputs)
    \/ \E p \in Procs, live \in BOOLEAN : MultiVerify(p, live)
    \/ \E p \in Procs : MultiInsert(p)
    \/ \E p \in Procs : OverrideCheck(p, OverrideInputs)
    \/ \E p \in Procs : OverrideInsert(p)
    \/ \E p \in Procs : ManualSubmit(p, ManualInputs)
    \/ \E require_liveness \in {FALSE} : StartSession(require_liveness)
    \/ \E id \in SessionIds : EndSession(id)
    \/ \E p \in Procs : Retire(p)

Spec == Init /\ [][Next]_vars

-----------------------------------------------------------------------------
(* verify_multi_frame alone, over every frame sequence up to MaxVmfFrames  *)

\* what the store may hold when it is called
VmfStores ==
    {<<>>,
     <<LogRow(1, 1, "Verified (Manual Override)", 1, 100, FALSE, "Manual Override", FALSE)>>,
     <<LogRow(1, 0, "Verified", 1, 95, FALSE, "Face+MultiFrame", FALSE)>>}

InitVerify ==
    /\ sessions = [NoRows EXCEPT ![1] = [status |-> "active", started_at |-> 1,
                                         ended_at |-> 0, require_liveness |-> FALSE]]
    /\ logs \in VmfStores
    /\ clock = 2
    /\ req = [p \in Procs |-> IdleReq]
    /\ vmf = VmfIdle
    /\ sess = SessIdle
    /\ anom = AnomIdle
    /\ thresholds = ThresholdsIdle
    /\ detector = DetectorIdle
    /\ liveness = LivenessIdle
    /\ reg = RegIdle

NextVerify ==
    \/ \E result \in VmfFrames : VmfFrame(result)
    \/ \E session_id \in {0, 1}, claimed \in {0, 1, 12} : VmfFinish(session_id, claimed)

SpecVerify == InitVerify /\ [][NextVerify]_vars

-----------------------------------------------------------------------------
(* One submission on /mark or /mark-multi, over every combination of the   *)
(* matcher's answers, claimed identity, tokens and coordinates, against a  *)
(* store the system can have reached                                       *)

RequestFrames ==
    {FrameError, FrameNoFace, FrameMultipleFaces, FrameUnknown}
        \cup {FrameMatched(n, c) : n \in {"alice", "bob", "mallory"}, c \in {30, 45, 95}}

RequestMarkInputs ==
    {inp \in [session_id : SessionArgs,
              frame : RequestFrames,
              student_id : {0, 1, 12, 99},
              fingerprint_data : {0, 21, 29},
              id_card_scan : {0, 31, 39},
              coords : BOOLEAN,
              off_campus : BOOLEAN] : inp.off_campus => inp.coords}

RequestMultiFrames ==
    {FrameError, FrameNoFace, FrameMultipleFaces, FrameMatched("alice", 45),
     FrameMatched("alice", 95), FrameMatched("bob", 95), FrameMatched("mallory", 95)}

RequestMultiInputs ==
    {inp \in [session_id : SessionArgs,
              frames : SeqsUpTo(RequestMultiFrames, REQUIRED_CONSISTENT_FRAMES)
                          \ SeqsUpTo(RequestMultiFrames, REQUIRED_CONSISTENT_FRAMES - 2),
              student_id : {0, 1, 12, 99},
              check_liveness : BOOLEAN,
              coords : BOOLEAN,
              off_campus : BOOLEAN] : inp.off_campus => inp.coords}

\* the rows session 1 can hold
RequestSessions ==
    {NoSession,
     [NoSession EXCEPT !.status = "pending"],
     [status |-> "active", started_at |-> 1, ended_at |-> 0, require_liveness |-> FALSE],
     [status |-> "active", started_at |-> 1, ended_at |-> 0, require_liveness |-> TRUE],
     [status |-> "ended", started_at |-> 1, ended_at |-> 1, require_liveness |-> FALSE]}

\* the stores: empty, after /override for alice in session 1, after alice was
\* marked by fingerprint outside any session from a known position
RequestStores ==
    {<<>>,
     <<LogRow(1, 1, "Verified (Manual Override)", 1, 100, FALSE, "Manual Override", FALSE)>>,
     <<LogRow(1, 0, "Biometrically Verified", 1, 100, FALSE, "Fingerprint", TRUE)>>}

InitRequest ==
    /\ \E row \in RequestSessions : sessions = [NoRows EXCEPT ![1] = row]
    /\ logs \in RequestStores
    /\ clock = 2
    /\ req = [p \in Procs |-> IdleReq]
    /\ vmf = VmfIdle
    /\ sess = SessIdle
    /\ anom = AnomIdle
    /\ thresholds = ThresholdsIdle
    /\ detector = DetectorIdle
    /\ liveness = LivenessIdle
    /\ reg = RegIdle

NextRequest ==
    \/ MarkStart(1, RequestMarkInputs)
    \/ MarkVerify(1)
    \/ MarkBuild(1)
    \/ MultiStart(1, RequestMultiInputs)
    \/ \E live \in BOOLEAN : MultiVerify(1, live)
    \/ MultiInsert(1)

SpecRequest == InitRequest /\ [][NextRequest]_vars

-----------------------------------------------------------------------------
(* Properties of verify_multi_frame (SpecVerify)                           *)

\* the call has returned
VmfDone == vmf.pc = "done"

\* the identities of the matched frames of the call
VmfIdentities == SeqRange(vmf.acc.identities)

-----------------------------------------------------------------------------
(* Properties of the system (Spec)                                         *)

\* a submission on /mark or /mark-multi
IsSubmission(r) == r.op \in {"mark", "multi"}

\* the student a finished submission resolved to, by face or by fallback token
ResolvedStudent(r) ==
    IF r.op = "mark" THEN r.st.db_student
    ELSE IF r.vr.student_name # "" THEN StudentByName(r.vr.student_name)
    ELSE 0

\* the ids of the accepted rows of a (student, session) pair
AcceptedRows(lg, student_id, session_id) ==
    {k \in 1..Len(lg) : /\ lg[k].student_id = student_id
                         /\ lg[k].session_id = session_id
                         /\ ContainsVerified(lg[k].status)}

\* C1: once an accepted log exists for a (student, session) pair, every later
\* submission on /mark or /mark-multi in that active session that resolves to
\* the same student, by face or by fallback token, returns 'Already Marked'
\* with the original log's timestamp, and creates no accepted log.
C1_AlreadyMarked ==
    \A p \in Procs :
        LET r == req[p]
            s == ResolvedStudent(r)
        IN  (/\ r.pc = "done" /\ IsSubmission(r)
             /\ r.session_id # 0 /\ r.resp.code \notin {400, 404}
             /\ s # 0
             /\ \E t \in 1..MaxClock :
                    /\ <<s, t>> \in r.accepted0
                    /\ <<s, t>> \in AcceptedIn(logs, r.session_id))
                => /\ r.resp.status = "Already Marked"
                   /\ <<s, r.resp.marked_at>> \in r.accepted0
                   /\ (r.resp.log_id = 0 \/ ~ContainsVerified(logs[r.resp.log_id].status))

\* C2: whatever the interleaving of two concurrent submissions for the same
\* (identity, session), the store never holds two accepted records for the
\* pair.
C2_OneAcceptedRecord ==
    \A student_id \in StudentIds, session_id \in SessionIds :
        Cardinality(AcceptedRows(logs, student_id, session_id)) <= 1

\* the rows of the store that belong to a session
RowsOfSession(lg, session_id) ==
    LET Belongs(row) == row.session_id = session_id
    IN  SelectSeq(lg, Belongs)

\* C10: once a session has been ended, no operation adds an attendance log
\* for it or changes one of its logs.
C10_EndedSessionFrozen ==
    [][\A id \in SessionIds :
          (SessionExists(sessions, id) /\ sessions[id].status = "ended")
              => RowsOfSession(logs', id) = RowsOfSession(logs, id)]_vars

-----------------------------------------------------------------------------
(* Properties of one submission (SpecRequest)                              *)

\* the tier below which a face match alone is not trusted: the 60% of the
\* note _apply_confidence_policy writes
RequireFallbackTier == 60

ProxySuspectedClass(status) ==
    status \in {"Proxy Suspected: Multiple Faces", "Proxy Suspected: Identity Switch",
                "Proxy Suspected: ID Mismatch", "Proxy Suspected: Fingerprint Mismatch",
                "Proxy Suspected: ID Card Mismatch"}

\* the submission carries frames only: no claimed identity, no token, and
\* no liveness check stands between the face decision and the outcome
PlainFaceClaim(r) ==
    /\ r.student_id = 0 /\ r.fingerprint_data = 0 /\ r.id_card_scan = 0
    /\ ~r.check_liveness

\* the enrolled student the matcher consistently recognised in the frames of
\* a submission, 0 when there is none
FaceIdentity(r) ==
    IF r.op = "mark"
    THEN IF r.frames[1].status = "success" /\ r.frames[1].match
         THEN StudentByName(r.frames[1].student_name) ELSE 0
    ELSE LET acc == VmfLoop(VmfStart, r.frames)
         IN  IF /\ acc.multi_face_count = 0
                /\ Len(acc.identities) >= REQUIRED_CONSISTENT_FRAMES
                /\ Cardinality(SeqRange(acc.identities)) = 1
             THEN StudentByName(acc.identities[1]) ELSE 0

\* the (aggregated) face confidence of a submission with a FaceIdentity
FaceConfidence(r) ==
    IF r.op = "mark" THEN r.frames[1].confidence
    ELSE LET acc == VmfLoop(VmfStart, r.frames)
         IN  SumSeq(acc.confidences) \div Len(acc.confidences)

\* a finished plain face submission for an enrolled student who has no
\* accepted log in the session it names
FaceDecided(r) ==
    /\ r.pc = "done" /\ IsSubmission(r) /\ r.matcher_called
    /\ PlainFaceClaim(r)
    /\ FaceIdentity(r) # 0
    /\ \A t \in 1..MaxClock : <<FaceIdentity(r), t>> \notin r.accepted0

\* C9: a submission on /mark or /mark-multi that names a session which does
\* not exist or is not active is answered with an error (404 or 400) in the
\* step in which it arrives, before any matcher call, and that step leaves
\* the attendance-log store as it is.
C9_SessionInvalid ==
    [][\A p \in Procs :
          (/\ req[p].pc = "idle"
           /\ IsSubmission(req'[p])
           /\ req'[p].session_id # 0
           /\ ~(SessionExists(sessions, req'[p].session_id)
                 /\ sessions[req'[p].session_id].status = "active"))
              => /\ req'[p].pc = "done"
                 /\ req'[p].resp.code \in {400, 404}
                 /\ ~req'[p].resp.success
                 /\ ~req'[p].matcher_called
                 /\ logs' = logs]_vars

\* a submission against a session that has ended was refused with 400 without
\* a matcher call, and the store holds what it held
C9_Witness ==
    \E p \in Procs :
        /\ req[p].pc = "done" /\ IsSubmission(req[p])
        /\ req[p].session_id \in SessionIds
        /\ sessions[req[p].session_id].status = "ended"
        /\ req[p].resp.code = 400 /\ ~req[p].matcher_called
        /\ logs \in RequestStores

\* C3: if the matcher reports multiple_faces for any submitted frame, the
\* outcome of the request is ProxySuspected-class with the proxy flag set and
\* never an accepted one, whatever the other frames and whatever fallback
\* token is supplied, on /mark and on /mark-multi.
C3_MultipleFacesShortCircuit ==
    \A p \in Procs :
        LET r == req[p]
        IN  (/\ r.pc = "done" /\ IsSubmission(r) /\ r.matcher_called
             /\ \E i \in 1..Len(r.frames) : r.frames[i].status = "multiple_faces")
                => /\ r.resp.code = 200
                   /\ ProxySuspectedClass(r.resp.status)
                   /\ r.resp.proxy_suspected
                   /\ ~r.resp.success

\* C6: on /mark and on /mark-multi alike the face confidence decides one of
\* three outcomes: below the reject tier the claim is rejected, from the
\* reject tier up to RequireFallbackTier a fallback factor is required, from
\* RequireFallbackTier on the claim is accepted on the face alone.
C6_ThreeWaySplit ==
    \A p \in Procs :
        LET r == req[p]
            c == FaceConfidence(r)
        IN  FaceDecided(r)
                => /\ r.resp.code = 200
                   /\ c < FACE_CONFIDENCE_REJECT
                          => ~r.resp.success /\ ~ContainsVerified(r.resp.status)
                   /\ (FACE_CONFIDENCE_REJECT <= c /\ c < RequireFallbackTier)
                          => ~r.resp.success /\ r.resp.status = BIOMETRIC_REQUIRED
                   /\ c >= RequireFallbackTier
                          => r.resp.success /\ ContainsVerified(r.resp.status)

\* C7: a plain face claim whose (aggregated) confidence is at or above the
\* accept tier, for a consistently recognised enrolled student, ends Verified
\* and the log it records has verification_method "Face".
C7_VerifiedByFace ==
    \A p \in Procs :
        LET r == req[p]
        IN  (FaceDecided(r) /\ FaceConfidence(r) >= FACE_CONFIDENCE_HIGH)
                => /\ r.resp.success
                   /\ ContainsVerified(r.resp.status)
                   /\ r.resp.log_id \in 1..Len(logs)
                   /\ logs[r.resp.log_id].verification_method = "Face"

\* C8: a claim whose face confidence lies between the reject tier and
\* RequireFallbackTier and that supplies no fingerprint or ID-card token ends
\* in 'Biometric Required', and the request writes no log row.
C8_BiometricRequired ==
    [][\A p \in Procs :
          LET r == req'[p]
          IN  (/\ req[p].pc # "done"
               /\ r.pc = "done" /\ IsSubmission(r) /\ r.matcher_called
               /\ r.fingerprint_data = 0 /\ r.id_card_scan = 0
               /\ FaceIdentity(r) # 0
               /\ FACE_CONFIDENCE_REJECT <= FaceConfidence(r)
               /\ FaceConfidence(r) < RequireFallbackTier)
                  => /\ r.resp.status = BIOMETRIC_REQUIRED
                     /\ ~r.resp.success
                     /\ logs' = logs]_vars

\* a finished /mark request whose face step ended in the biometric fallback,
\* so that _apply_biometric_fallback has run on the supplied tokens
FallbackRan(r) ==
    /\ r.pc = "done" /\ r.op = "mark" /\ r.matcher_called
    /\ r.st.biometric_fallback

\* no supplied fallback token is the stored token of a student
NoTokenMatches(r) ==
    /\ r.fingerprint_data # 0 \/ r.id_card_scan # 0
    /\ r.fingerprint_data # 0 => StudentByFingerprint(r.fingerprint_data) = 0
    /\ r.id_card_scan # 0 => StudentByIdCard(r.id_card_scan) = 0

\* C12: when the fallback runs with both a fingerprint and an ID-card token
\* and the fingerprint is a student's, that student and the method
\* "Fingerprint" are the result; when no supplied token matches a student the
\* request is answered with a terminal rejection that names the factor
\* ("Rejected: Fingerprint Not Found" / "Rejected: ID Card Not Found"), never
\* with 'Biometric Required' and never as accepted.
C12_FallbackRejected ==
    \A p \in Procs :
        LET r == req[p]
        IN  FallbackRan(r)
                => /\ (/\ r.fingerprint_data # 0 /\ r.id_card_scan # 0
                       /\ StudentByFingerprint(r.fingerprint_data) # 0)
                          => /\ r.st.db_student = StudentByFingerprint(r.fingerprint_data)
                             /\ r.st.verification_method = "Fingerprint"
                   /\ NoTokenMatches(r)
                          => /\ r.resp.code = 200
                             /\ r.resp.status = (IF r.fingerprint_data # 0
                                                 THEN "Rejected: Fingerprint Not Found"
                                                 ELSE "Rejected: ID Card Not Found")
                             /\ ~r.resp.success

\* the student the supplied fallback tokens resolve to (fingerprint first),
\* 0 when the token that is tried is no student's
TokenStudent(r) ==
    IF r.fingerprint_data # 0 THEN StudentByFingerprint(r.fingerprint_data)
    ELSE IF r.id_card_scan # 0 THEN StudentByIdCard(r.id_card_scan)
    ELSE 0

\* C13: a fallback whose token matches a student answers with confidence 100
\* and that student's name and records the method Fingerprint or ID Card;
\* when the only proxy flag was the one raised for several faces in the
\* frame, the flag is cleared and the decision is reported as accepted.
C13_FallbackAccepted ==
    \A p \in Procs :
        LET r == req[p]
        IN  (FallbackRan(r) /\ TokenStudent(r) # 0)
                => /\ r.resp.code = 200
                   /\ r.resp.confidence = 100
                   /\ r.resp.student_name = NameOf(TokenStudent(r))
                   /\ r.resp.log_id \in 1..Len(logs)
                   /\ logs[r.resp.log_id].verification_method
                          = (IF r.fingerprint_data # 0 THEN "Fingerprint" ELSE "ID Card")
                   /\ r.frames[1].status = "multiple_faces"
                          => ~r.resp.proxy_suspected /\ r.resp.success

\* the student a finished submission was decided for: the fallback token's
\* student, else the face-matched student whose confidence reached the
\* reject tier; 0 when no identity was resolved
DecidedStudent(r) ==
    IF r.op = "mark"
    THEN IF r.st.biometric_fallback THEN TokenStudent(r) ELSE r.st.db_student
    ELSE IF FaceIdentity(r) # 0 /\ FaceConfidence(r) >= FACE_CONFIDENCE_REJECT
         THEN FaceIdentity(r) ELSE 0

\* the claimed identity is given and is neither the roll number nor the id of
\* the decided student
ClaimMismatch(r) ==
    /\ r.student_id # 0
    /\ DecidedStudent(r) # 0
    /\ Student(DecidedStudent(r)).roll_number # r.student_id
    /\ DecidedStudent(r) # r.student_id

\* C14: whatever the confidence and however the identity was resolved (face
\* on /mark or /mark-multi, or fallback token), a submission whose claimed
\* identity is neither the roll number nor the id of the resolved student,
\* the claim of an identity that no student has included, ends in
\* 'Proxy Suspected: ID Mismatch' (or 'Already Marked' when the student has
\* an accepted log in the session) and never in a plain Verified.
C14_ClaimMismatch ==
    \A p \in Procs :
        LET r == req[p]
        IN  (/\ r.pc = "done" /\ IsSubmission(r) /\ r.matcher_called
             /\ ~r.check_liveness
             /\ ClaimMismatch(r))
                => /\ r.resp.code = 200
                   /\ r.resp.status \in {"Proxy Suspected: ID Mismatch", "Already Marked"}

\* the verification method _apply_claim_checks builds for the supplied tokens
MethodChecked(r) ==
    "Face" \o (IF r.fingerprint_data # 0 THEN "+Fingerprint" ELSE "")
           \o (IF r.id_card_scan # 0 THEN "+IDCard" ELSE "")

\* a finished /mark request whose frame matched an enrolled student at or
\* above the accept tier, with a fingerprint and/or ID-card token on top and
\* no accepted log of that student in the session
FaceMatchWithToken(r) ==
    /\ r.pc = "done" /\ r.op = "mark" /\ r.matcher_called
    /\ FaceIdentity(r) # 0
    /\ FaceConfidence(r) >= RequireFallbackTier
    /\ r.fingerprint_data # 0 \/ r.id_card_scan # 0
    /\ \A t \in 1..MaxClock : <<FaceIdentity(r), t>> \notin r.accepted0

\* C15: a token supplied on top of a successful face match is compared with
\* the stored token of the face-matched student: a token that differs gives
\* 'Proxy Suspected: Fingerprint Mismatch' / 'Proxy Suspected: ID Card
\* Mismatch' with the proxy flag, and the log records every factor that was
\* checked, in order ("Face+Fingerprint+IDCard"), whether it passed or not.
C15_TokenOnTopOfFace ==
    \A p \in Procs :
        LET r == req[p]
            stored == Student(FaceIdentity(r))
            fp_bad == r.fingerprint_data # 0 /\ stored.fingerprint_id # r.fingerprint_data
            card_bad == r.id_card_scan # 0 /\ stored.id_card_code # r.id_card_scan
        IN  FaceMatchWithToken(r)
                => /\ r.resp.code = 200
                   /\ r.resp.log_id \in 1..Len(logs)
                   /\ logs[r.resp.log_id].verification_method = MethodChecked(r)
                   /\ card_bad => /\ r.resp.status = "Proxy Suspected: ID Card Mismatch"
                                  /\ r.resp.proxy_suspected
                   /\ (fp_bad /\ ~card_bad)
                          => /\ r.resp.status = "Proxy Suspected: Fingerprint Mismatch"
                             /\ r.resp.proxy_suspected

\* the answer of verify_multi_frame for the frames of a /mark-multi request
\* that is about to run it
FaceResult(r) == VerifyMultiFrame(logs, r.frames, r.session_id, r.student_id)

\* C16: on /mark-multi the liveness detector is called only when the session
\* or the caller asked for it and verify_multi_frame has answered 'Verified';
\* when the detector fails, the request is answered as a rejection for failed
\* liveness (success false, nothing Verified) that carries the student name
\* and the confidence verify_multi_frame computed, and that decision is logged.
C16_LivenessAfterVerified ==
    [][\A p \in Procs :
          LET r == req[p]
              after == req'[p]
          IN  /\ (r.op = "multi" /\ r.pc = "verify" /\ after.liveness_called)
                     => /\ r.check_liveness
                        /\ FaceResult(r).status = "Verified"
              /\ (/\ r.op = "multi" /\ r.pc = "insert" /\ after.pc = "done"
                  /\ r.liveness_called /\ ~r.liveness_passed)
                     => /\ after.resp.code = 200
                        /\ after.resp.status = "Liveness Failed"
                        /\ ~after.resp.success
                        /\ after.resp.student_name = FaceResult(r).student_name
                        /\ after.resp.confidence = FaceResult(r).avg_confidence
                        /\ Len(logs') = Len(logs) + 1]_vars

\* the decision a submission has reached when anomaly scoring begins: on
\* /mark the state after _apply_biometric_fallback, on /mark-multi the
\* result after the liveness check
Decision(r) ==
    IF r.op = "mark"
    THEN LET state == ApplyBiometricFallback(r.st, r.fingerprint_data, r.id_card_scan)
         IN  [status |-> state.status, student_id |-> state.db_student,
              student_name |-> state.recognized_name, confidence |-> state.confidence,
              proxy |-> state.proxy_suspected, method |-> state.verification_method,
              success |-> ContainsVerified(state.status) /\ ~state.proxy_suspected]
    ELSE [status |-> r.vr.status,
          student_id |-> IF r.vr.student_name # "" THEN StudentByName(r.vr.student_name) ELSE 0,
          student_name |-> r.vr.student_name, confidence |-> r.vr.avg_confidence,
          proxy |-> r.vr.is_proxy_suspected, method |-> "Face+MultiFrame",
          success |-> r.vr.success]

\* the submission is at the step that scores anomalies: the log is built
ScoringStep(r) ==
    \/ r.op = "multi" /\ r.pc = "insert"
    \/ /\ r.op = "mark" /\ r.pc = "build"
       /\ ~(/\ ApplyBiometricFallback(r.st, r.fingerprint_data, r.id_card_scan).biometric_fallback
            /\ r.fingerprint_data = 0 /\ r.id_card_scan = 0)

\* C18: when a submission completes after anomaly scoring, the answer and the
\* log row carry the decision reached before scoring unchanged (status,
\* identity, confidence, proxy flag, verification method, success); scoring
\* shows only in the row's anomaly flag, which is set exactly when a reason
\* was found.
C18_AnomalyLeavesDecision ==
    [][\A p \in Procs :
          LET r == req[p]
              after == req'[p]
              d == Decision(r)
              row == logs'[Len(logs')]
          IN  (ScoringStep(r) /\ after.pc = "done" /\ after.resp.code = 200)
                  => /\ Len(logs') = Len(logs) + 1
                     /\ after.resp.status = d.status
                     /\ after.resp.student_name = d.student_name
                     /\ after.resp.confidence = d.confidence
                     /\ after.resp.proxy_suspected = d.proxy
                     /\ after.resp.success = d.success
                     /\ row.status = d.status
                     /\ row.student_id = d.student_id
                     /\ row.confidence = d.confidence
                     /\ row.is_proxy_suspected = d.proxy
                     /\ row.verification_method = d.method
                     /\ row.is_anomaly
                            = (DetectAnomalies(logs, d.student_id, r.coords, r.off_campus) # <<>>)]_vars

\* an accepted submission from an off-campus position: the answer is a
\* success, the log row is Verified-class and flagged as an anomaly
C18_Witness ==
    \E p \in Procs :
        LET r == req[p]
        IN  /\ r.pc = "done" /\ IsSubmission(r) /\ r.off_campus
            /\ r.resp.code = 200 /\ r.resp.success
            /\ r.resp.log_id \in 1..Len(logs)
            /\ logs[r.resp.log_id].is_anomaly
            /\ ContainsVerified(logs[r.resp.log_id].status)
            /\ ~logs[r.resp.log_id].is_proxy_suspected

\* C19: when one of the anomaly sub-checks fails while a submission is
\* scored, the request is still answered with its decision and the decision
\* is persisted: the failing check neither blocks nor aborts the request.
C19_AnomalyFailureIsolated ==
    [][\A p \in Procs :
          LET r == req[p]
              after == req'[p]
              d == Decision(r)
          IN  (/\ ScoringStep(r) /\ after.pc = "done"
               /\ DetectAnomaliesRaises(sessions, logs, d.student_id, r.session_id, r.coords))
                  => /\ after.resp.code = 200
                     /\ after.resp.status = d.status
                     /\ Len(logs') = Len(logs) + 1]_vars

-----------------------------------------------------------------------------
(* Failures of the matcher (SpecRequest)                                   *)

\* the matcher was called on the request's frames and failed on one of them:
\* verify_student caught an exception or could not decode the image
MatcherFailed(r) ==
    /\ r.pc = "done" /\ r.matcher_called
    /\ \E i \in 1..Len(r.frames) : r.frames[i] = FrameError

\* the request was answered with an error, not with a decision
ErrorOutcome(r) == r.resp.code >= 500

\* C24: a /mark or /mark-multi request during which the matcher failed is
\* answered with an error outcome; it is never answered with a decision such
\* as 'Biometric Required', 'Face Not Recognized' or a rejection.
C24_MatcherFailureIsError ==
    \A p \in Procs : MatcherFailed(req[p]) => ErrorOutcome(req[p])

-----------------------------------------------------------------------------
(* Success and proxy suspicion in one response (SpecRequest)               *)

\* C27: no response of /mark or /mark-multi has both success = true and
\* proxy_suspected = true; a 'Proxy Suspected: ID Mismatch' result is never
\* answered as a success.
C27_SuccessIsNotProxy ==
    \A p \in Procs :
        LET r == req[p]
        IN  (IsSubmission(r) /\ r.pc = "done" /\ r.resp.code = 200)
                => /\ r.resp.success => ~r.resp.proxy_suspected
                   /\ r.resp.status = "Proxy Suspected: ID Mismatch" => ~r.resp.success

-----------------------------------------------------------------------------
(* The confidence label of an accepted face outcome (SpecRequest)          *)

\* a finished submission that was accepted by its face step: 'Verified' from
\* verify_multi_frame or from the single-frame pipeline
AcceptedByFace(r) ==
    /\ IsSubmission(r) /\ r.pc = "done" /\ r.resp.code = 200
    /\ r.resp.status = "Verified"
    /\ r.op = "mark" => r.st.verification_method = "Face"

\* C28: an accepted face outcome never carries the confidence label REJECTED:
\* the label of the confidence it records is HIGH, MEDIUM or LOW.
C28_AcceptedLabelNotRejected ==
    \A p \in Procs :
        LET r == req[p]
        IN  AcceptedByFace(r)
                => /\ get_confidence_label(r.resp.confidence) \in {"HIGH", "MEDIUM", "LOW"}
                   /\ r.op = "multi" => r.vr.confidence_label \in {"HIGH", "MEDIUM", "LOW"}

-----------------------------------------------------------------------------
(* The student of an accepted log (SpecRequest)                            *)

\* C29: every log of the store whose status is of the Verified class
\* references a student: none has a null student_id.
C29_AcceptedLogHasStudent ==
    \A k \in 1..Len(logs) : ContainsVerified(logs[k].status) => logs[k].student_id # 0

-----------------------------------------------------------------------------
(* One call of analyze_anomalies (SpecAnomaly), over the arguments and the *)
(* query answers it can meet                                               *)

\* the time of the claim that is scored, in seconds
AnomalyNow == 100000

AnomalyPositions ==
    {NoPosition, Position(0), Position(MAX_DISTANCE_METERS), Position(MAX_DISTANCE_METERS + 1), Position(2000), Position(50000),
     Position(EquatorNorth)}

\* the session row of log.session_id: none, never started, running, not yet
\* started for more than 30 minutes, ended for more than an hour
AnomalySessions ==
    {NoSession,
     [NoSession EXCEPT !.status = "pending"],
     [NoSession EXCEPT !.status = "active", !.started_at = AnomalyNow - 600],
     [NoSession EXCEPT !.status = "active", !.started_at = AnomalyNow + 2000],
     [NoSession EXCEPT !.status = "ended", !.started_at = AnomalyNow - 7800,
                       !.ended_at = AnomalyNow - 3700]}

\* the student's latest other log
AnomalyLastLogs ==
    {[exists |-> FALSE, pos |-> NoPosition, timestamp |-> 0],
     [exists |-> TRUE, pos |-> NoPosition, timestamp |-> AnomalyNow - 60],
     [exists |-> TRUE, pos |-> Position(0), timestamp |-> AnomalyNow - 60],
     [exists |-> TRUE, pos |-> Position(50000), timestamp |-> AnomalyNow - 60],
     [exists |-> TRUE, pos |-> Position(800), timestamp |-> AnomalyNow - 30]}

\* log.timestamp is None for a log that was not inserted yet
AnomalyInputs ==
    {inp \in [student_id : {0, 1}, session_id : {0, 1}, timestamp : {0, AnomalyNow},
              has_ip : BOOLEAN, pos : AnomalyPositions, session : AnomalySessions,
              last_log : AnomalyLastLogs, failed_count : {0, 3, 5},
              ip_failed : {0, 10}, unique_ips : {1, 3}] :
        /\ inp.session_id = 0 => inp.session = NoSession
        /\ inp.student_id = 0 => ~inp.last_log.exists}

InitAnomaly ==
    /\ sessions = NoRows
    /\ logs = <<>>
    /\ clock = 1
    /\ req = [p \in Procs |-> IdleReq]
    /\ vmf = VmfIdle
    /\ sess = SessIdle
    /\ anom = AnomIdle
    /\ thresholds = ThresholdsIdle
    /\ detector = DetectorIdle
    /\ liveness = LivenessIdle
    /\ reg = RegIdle

NextAnomaly ==
    \/ AnalyzeStart(AnomalyInputs)
    \/ AnalyzeLocation
    \/ AnalyzeTime
    \/ AnalyzeTravel
    \/ AnalyzeFailedAttempts
    \/ AnalyzeDevice
    \/ AnalyzeFinish

SpecAnomaly == InitAnomaly /\ [][NextAnomaly]_vars

\* the sum of the five sub-scores of a finished analysis
SubScoreSum ==
    anom.scores.location + anom.scores.time + anom.scores.travel
        + anom.scores.failed_attempts + anom.scores.device

\* every sub-score lies between 0 and its own weight
SubScoresWithinWeights ==
    \A name \in DOMAIN WEIGHTS :
        0 <= anom.scores[name] /\ anom.scores[name] <= 1000 * WEIGHTS[name]

TravelScenario ==
    /\ anom.pc \in {"done", "raised"}
    /\ anom.student_id # 0
    /\ anom.last_log.exists /\ anom.last_log.pos.given /\ anom.pos.given
    /\ anom.timestamp # 0
    /\ Abs(anom.timestamp - anom.last_log.timestamp) = 60
    /\ haversine_distance(anom.last_log.pos, anom.pos) = 50000
    /\ anom.pos = Position(0) \/ anom.last_log.pos = Position(0)

\* C20: for two claims of one identity with coordinates, 60 seconds and 50 km
\* apart, scoring the later one reports an impossible-travel reason and a risk
\* level of HIGH or CRITICAL, whichever of the two positions is the campus.
C20_ImpossibleTravel ==
    TravelScenario
        => /\ anom.pc = "done"
           /\ \E i \in 1..Len(anom.all_reasons) : anom.all_reasons[i] = "Impossible Travel"
           /\ anom.risk_level \in {"HIGH", "CRITICAL"}

-----------------------------------------------------------------------------
(* The location check within one call of analyze_anomalies (SpecAnomaly)   *)

\* the claim carries coordinates that lie further from the campus point than
\* MAX_DISTANCE_METERS
OffCampus(pos) == pos.given /\ haversine_distance(Position(0), pos) > MAX_DISTANCE_METERS

\* the location check of this call has returned
LocationChecked == anom.pc \notin {"idle", "location"}

HasLocationReason == \E i \in 1..Len(anom.all_reasons) : anom.all_reasons[i] = "Off-Campus Location"

\* C21: a claim whose coordinates lie further from the campus point than the
\* geofence radius gets a location reason and a positive location sub-score,
\* and the AnomalyResult of its analysis has is_anomaly true and a risk score
\* above 0; a claim within the radius or without coordinates gets no location
\* reason and a location sub-score of 0.
C21_OffCampusIsAnomaly ==
    LocationChecked
        => IF OffCampus(anom.pos)
           THEN /\ HasLocationReason
                /\ anom.scores.location > 0
                /\ anom.pc = "done" => anom.is_anomaly /\ anom.risk_score > 0
           ELSE /\ ~HasLocationReason
                /\ anom.scores.location = 0

\* a claim 2000 m from the campus with nothing else to report: the result is an
\* anomaly whose only reason is the location and whose score is 12.0
C21_Witness ==
    /\ anom.pc = "done"
    /\ anom.pos = Position(2000)
    /\ anom.all_reasons = <<"Off-Campus Location">>
    /\ anom.is_anomaly
    /\ anom.risk_score = 12000
    /\ anom.risk_level = "LOW"

-----------------------------------------------------------------------------
(* The lifecycle of one AttendanceSession (SpecSession)                    *)

\* the object as the constructor leaves it before the column default applies
\* (status None), as a pending row, and as create_and_start_session builds it
InitSession ==
    /\ sessions = NoRows
    /\ logs = <<>>
    /\ clock \in 2..3
    /\ req = [p \in Procs |-> IdleReq]
    /\ vmf = VmfIdle
    /\ sess \in {SessIdle,
                 [SessIdle EXCEPT !.obj.status = "pending"],
                 [SessIdle EXCEPT !.obj.status = "active", !.obj.started_at = clock - 1,
                                  !.started_sets = 1]}
    /\ anom = AnomIdle
    /\ thresholds = ThresholdsIdle
    /\ detector = DetectorIdle
    /\ liveness = LivenessIdle
    /\ reg = RegIdle

NextSession == \E method \in {"start", "end"} : SessionCall(method)

SpecSession == InitSession /\ [][NextSession]_vars

\* C11: the status only moves pending -> active -> ended; start() changes the
\* session only when it is pending (status active, started_at now), end() only
\* when it is active (status ended, ended_at now), every other call leaves the
\* object as it is; 'ended' is terminal; is_active holds exactly in status
\* 'active'; started_at and ended_at are each given a value at most once.
C11_SessionLifecycle ==
    [][LET before == sess.obj
           after == sess'.obj
       IN  /\ (after.status # before.status)
                  => <<before.status, after.status>>
                         \in {<<"pending", "active">>, <<"active", "ended">>}
           /\ (sess'.call = "start" /\ before.status = "pending")
                  => after = [before EXCEPT !.status = "active", !.started_at = clock]
           /\ (sess'.call = "end" /\ before.status = "active")
                  => after = [before EXCEPT !.status = "ended", !.ended_at = clock]
           /\ (sess'.call = "start" /\ before.status # "pending") => after = before
           /\ (sess'.call = "end" /\ before.status # "active") => after = before
           /\ before.status = "ended" => after = before
           /\ is_active(after) <=> (/\ before.status \in {"pending", "active"}
                                    /\ sess'.call = "start")
           /\ sess'.started_sets <= 1 /\ sess'.ended_sets <= 1]_vars

\* a pending session was started, then ended, and start() and end() were
\* called on it again
C11_Witness ==
    /\ sess.obj.status = "ended"
    /\ sess.started_sets = 1 /\ sess.ended_sets = 1
    /\ sess.obj.started_at > 0
    /\ sess.obj.ended_at > sess.obj.started_at
    /\ clock > sess.obj.ended_at + 2

-----------------------------------------------------------------------------
(* A threshold policy object and its labels (SpecThresholds)               *)

\* the tiers a policy can be constructed with, in order or not
ThresholdKwargs ==
    [high : {40, 50, 65, 80}, medium : {40, 50, 65, 80},
     low : {40, 50, 65, 80}, reject : {40, 50, 65, 80}]

\* confidences on, next to and far from every tier
LabelConfidences == {-1, 0, 39, 40, 49, 50, 64, 65, 70, 79, 80, 100, 101}

InitThresholds ==
    /\ sessions = NoRows
    /\ logs = <<>>
    /\ clock = 1
    /\ req = [p \in Procs |-> IdleReq]
    /\ vmf = VmfIdle
    /\ sess = SessIdle
    /\ anom = AnomIdle
    /\ thresholds = ThresholdsIdle
    /\ detector = DetectorIdle
    /\ liveness = LivenessIdle
    /\ reg = RegIdle

NextThresholds ==
    \/ ThresholdsNew(ThresholdKwargs)
    \/ LabelCall(LabelConfidences)
    \/ GetThresholds

SpecThresholds == InitThresholds /\ [][NextThresholds]_vars

\* the tiers of a label, from the worst to the best
LabelRank(label) ==
    CASE label = "REJECTED" -> 0
      [] label = "LOW" -> 1
      [] label = "MEDIUM" -> 2
      [] label = "HIGH" -> 3
      [] OTHER -> -1

\* C22: get_confidence_label answers every confidence with one of the four
\* labels HIGH, MEDIUM, LOW, REJECTED, the same one whenever it is asked
\* again, and it is monotone: for two calls with c1 <= c2 the label of c1 is
\* never a better tier than the label of c2.
C22_LabelTotalAndMonotone ==
    \A i, j \in 1..Len(thresholds.calls) :
        LET a == thresholds.calls[i]
            b == thresholds.calls[j]
        IN  /\ a.label \in {"HIGH", "MEDIUM", "LOW", "REJECTED"}
            /\ a.confidence = b.confidence => a.label = b.label
            /\ a.confidence <= b.confidence => LabelRank(a.label) <= LabelRank(b.label)

\* on the default policy, 64 was labelled LOW and then 65 MEDIUM
C22_Witness ==
    /\ thresholds.constructed
    /\ thresholds.self = VerificationThresholds(80, 65, 50, 40)
    /\ Len(thresholds.calls) = 2
    /\ thresholds.calls[1] = [confidence |-> 64, label |-> "LOW"]
    /\ thresholds.calls[2] = [confidence |-> 65, label |-> "MEDIUM"]

\* C23: every policy object that exists has strictly decreasing tiers,
\* reject < low < medium < high (construction refuses any other), and no
\* later operation changes a tier.
C23_TiersValidated ==
    thresholds.constructed
        => /\ thresholds.self.FACE_CONFIDENCE_REJECT < thresholds.self.FACE_CONFIDENCE_LOW
           /\ thresholds.self.FACE_CONFIDENCE_LOW < thresholds.self.FACE_CONFIDENCE_MEDIUM
           /\ thresholds.self.FACE_CONFIDENCE_MEDIUM < thresholds.self.FACE_CONFIDENCE_HIGH

-----------------------------------------------------------------------------
(* One call of check_liveness (SpecLiveness)                               *)

MaxLivenessFrames == 5

\* what a submitted frame can be: undecodable, without a face, eyes just
\* below the blink threshold, eyes just at it
LivenessFrames ==
    {UndecodableFrame, NoFaceFrame, EarFrame(EAR_BLINK_THRESHOLD - 1),
     EarFrame(EAR_BLINK_THRESHOLD)}

LivenessInputs ==
    [landmarks_available : BOOLEAN, frames : SeqsUpTo(LivenessFrames, MaxLivenessFrames)]

InitLiveness ==
    /\ sessions = NoRows
    /\ logs = <<>>
    /\ clock = 1
    /\ req = [p \in Procs |-> IdleReq]
    /\ vmf = VmfIdle
    /\ sess = SessIdle
    /\ anom = AnomIdle
    /\ thresholds = ThresholdsIdle
    /\ detector = DetectorIdle
    /\ liveness = LivenessIdle
    /\ reg = RegIdle

NextLiveness ==
    \/ CheckLivenessStart(LivenessInputs)
    \/ LivenessFrame
    \/ LivenessFinish

SpecLiveness == InitLiveness /\ [][NextLiveness]_vars

\* the frame shows a face whose eyes are closed / open
EyesClosed(frame) == frame.decoded /\ frame.face /\ frame.ear < EAR_BLINK_THRESHOLD

EyesOpen(frame) == frame.decoded /\ frame.face /\ frame.ear >= EAR_BLINK_THRESHOLD

\* a complete blink cycle: at least MIN_BLINK_FRAMES consecutive frames with
\* closed eyes, and an open-eyed frame somewhere after them
BlinkCycle(frames) ==
    \E i, j, k \in 1..Len(frames) :
        /\ i <= j /\ j < k
        /\ j - i + 1 >= MIN_BLINK_FRAMES
        /\ \A m \in i..j : EyesClosed(frames[m])
        /\ EyesOpen(frames[k])

\* C26: with landmarks available and at least three frames, all of which
\* decode, check_liveness passes if and only if the frames contain a complete
\* blink cycle; a closed run that reaches the last frame, a closed run
\* shorter than MIN_BLINK_FRAMES, and a closed run interrupted by a frame
\* without a face are no blink.
C26_PassesIffBlinkCycle ==
    (/\ liveness.pc = "done"
     /\ liveness.landmarks_available
     /\ Len(liveness.frames) >= 3
     /\ \A m \in 1..Len(liveness.frames) : liveness.frames[m].decoded)
        => (liveness.passed <=> BlinkCycle(liveness.frames))

-----------------------------------------------------------------------------
(* A retrain next to a recognition call on one FaceDetector (SpecDetector) *)

Folders == {"alice", "bob", "carol"}

\* what DATA_FACE_DIR.iterdir() can list: some of the folders, in any order
Listings ==
    {q \in SeqsUpTo(Folders, Cardinality(Folders)) :
        \A a, b \in 1..Len(q) : a # b => q[a] # q[b]}

\* the persons a frame can show
Faces == {Title(f) : f \in Folders}

InitDetector ==
    /\ sessions = NoRows
    /\ logs = <<>>
    /\ clock = 1
    /\ req = [p \in Procs |-> IdleReq]
    /\ vmf = VmfIdle
    /\ sess = SessIdle
    /\ anom = AnomIdle
    /\ thresholds = ThresholdsIdle
    /\ \E listing \in Listings :
          LET m == TrainedOn(listing)
          IN  detector = [DetectorIdle EXCEPT
                             !.known_face_labels = m.known_face_labels,
                             !.label_counter = Len(listing),
                             !.recognizer = m.recognizer,
                             !.is_trained = m.is_trained,
                             !.old = m]
    /\ liveness = LivenessIdle
    /\ reg = RegIdle

NextDetector ==
    \/ TrainClearLabels(Listings)
    \/ TrainResetCounter
    \/ TrainScanFolder
    \/ TrainRecognizer
    \/ TrainSetTrained
    \/ RecognizeStart(Faces)
    \/ RecognizePredict
    \/ RecognizeLookup

SpecDetector == InitDetector /\ [][NextDetector]_vars

\* the complete models there are: the one held before the retrain and, once a
\* retrain has begun, the one it builds
WholeModels ==
    {<<detector.old.recognizer, detector.old.known_face_labels>>}
        \cup (IF detector.train.pc = "idle" THEN {}
              ELSE LET m == TrainedOn(detector.train.listing)
                   IN  {<<m.recognizer, m.known_face_labels>>})

\* C25: a recognition call that ran next to a retrain has used a complete
\* model: the recognizer it predicted with and the label map it looked the
\* label up in are both the old ones or both the new ones, and the name it
\* returns is the person the frame shows.
C25_RecognitionSeesWholeModel ==
    (detector.rec.pc = "done" /\ detector.rec.matched)
        => /\ <<detector.rec.seen_recognizer, detector.rec.seen_labels>> \in WholeModels
           /\ detector.rec.name = detector.rec.face

-----------------------------------------------------------------------------
(* Registrations on the students table (SpecRegister)                      *)

\* the form fields of a request: a new or an enrolled name, a new or a taken
\* roll number, no fingerprint, a taken one or a new one
RegisterInputs ==
    [name : {"alice", "carol"}, roll_number : {11, 13},
     fingerprint_id : {0, 21, 23}, id_card_code : {0}]

\* the tables a request can find: empty, or with the enrolled students
RegisterTables == {<<>>, <<Student(1)>>, <<Student(1), Student(2)>>}

InitRegister ==
    /\ sessions = NoRows
    /\ logs = <<>>
    /\ clock = 1
    /\ req = [p \in Procs |-> IdleReq]
    /\ vmf = VmfIdle
    /\ sess = SessIdle
    /\ anom = AnomIdle
    /\ thresholds = ThresholdsIdle
    /\ detector = DetectorIdle
    /\ liveness = LivenessIdle
    /\ \E table \in RegisterTables : reg = [RegIdle EXCEPT !.students = table, !.students0 = table]

NextRegister ==
    \/ RegisterStart(RegisterInputs)
    \/ RegisterSave
    \/ RegisterCommit
    \/ RegisterRetrain

SpecRegister == InitRegister /\ [][NextRegister]_vars

\* C30: registration is all-or-nothing: a /register request that is answered
\* with an error has left the students table as it found it, and a request
\* that has committed a student is answered with success.
C30_RegistrationAllOrNothing ==
    reg.pc = "done"
        => /\ reg.code >= 400 => reg.students = reg.students0
           /\ reg.students # reg.students0 => reg.code = 200

====
